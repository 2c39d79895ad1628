----------------------------- MODULE TerminalProofs -----------------------------
(***************************************************************************)
(* Proofs about Terminal, for any texts, configurations, sizes, arguments   *)
(* and number of operations.                                                *)
(***************************************************************************)
EXTENDS Terminal, SequenceTheorems, WellFoundedInduction, TLAPS

-------------------------------------------------------------------------------
(* The inductive invariant.                                                 *)

Rows == [text : Nat, erased : BOOLEAN]
CleanRows == [text : Nat, erased : {FALSE}]

(* While term_size() works the saved cursor may be above the screen.        *)
Points == [x : Nat, y : Nat]
SavedPoints == [x : Nat, y : Int]

ModeStates == [t : Nat, b : Nat, om : BOOLEAN, wrap : BOOLEAN, wnext : BOOLEAN]
Saves == [curs : SavedPoints, wnext : BOOLEAN]

Terminals ==
    [rows : Nat \ {0}, cols : Nat \ {0, 1},
     screen : Seq(CleanRows), alt_screen : Seq(CleanRows), scrollback : Seq(Rows),
     tempsblines : Nat, alt_sblines : Nat, disptop : Int, alt_which : {0, 1},
     curs : Points, alt_curs : Points, save : Saves, alt_save : Saves,
     mode : ModeStates, alt_mode : ModeStates,
     tinted : Nat, found : {TRUE}]

(* A cursor and margins fit the screen. *)
Fits(t, c) == c.x < t.cols /\ c.y < t.rows
Region(t, m) == m.t < m.b /\ m.b < t.rows

Sound(t) ==
    /\ t \in Terminals
    /\ t.rows # 1
    /\ Len(t.screen) = t.rows /\ Len(t.alt_screen) = t.rows
    /\ Fits(t, t.curs) /\ Fits(t, t.alt_curs)
    /\ Region(t, t.mode) /\ Region(t, t.alt_mode)
    /\ t.save.curs.y >= 0 /\ t.alt_save.curs.y >= 0
    /\ t.tempsblines <= Len(t.scrollback)
    /\ Len(t.scrollback) <= cfg.savelines

(* The lines that a resize may bring back have not been erased.             *)
Restorable(t) ==
    \A i \in 1 .. Len(t.scrollback) :
        i > Len(t.scrollback) - t.tempsblines => t.scrollback[i] \in CleanRows

Seen(t) == t.disptop <= 0 /\ t.disptop + SbLines(t) >= 0

Fine(t) == Sound(t) /\ Restorable(t)

InOrder == cfg \in Configs /\ Fine(term) /\ Seen(term)

(* A DECSTBM may put the region above the screen, and then nothing is       *)
(* claimed.                                                                 *)
IInv == cfg \in Configs /\ (above \/ InOrder)

(* What an operation on the screen that is shown leaves alone: u is what it *)
(* makes of t.                                                              *)
Within(t, u) ==
    /\ u.rows = t.rows /\ u.cols = t.cols /\ u.alt_which = t.alt_which
    /\ u.alt_screen = t.alt_screen /\ u.alt_curs = t.alt_curs
    /\ t.alt_which = 1 => u.scrollback = t.scrollback
    /\ Seen(t) => Seen(u)

-------------------------------------------------------------------------------
(* Lemmas about numbers and sequences.                                      *)

LEMMA MinMax ==
    ASSUME NEW a \in Int, NEW b \in Int
    PROVE  /\ Min({a, b}) = IF a <= b THEN a ELSE b
           /\ Max({a, b}) = IF a >= b THEN a ELSE b
<1>1. ASSUME NEW x \in {a, b}, \A y \in {a, b} : x <= y PROVE x = IF a <= b THEN a ELSE b
  BY <1>1
<1>2. \E x \in {a, b} : \A y \in {a, b} : x <= y
  OBVIOUS
<1>3. Min({a, b}) \in {a, b} /\ \A y \in {a, b} : Min({a, b}) <= y
  BY <1>2 DEF Min
<1>4. ASSUME NEW x \in {a, b}, \A y \in {a, b} : x >= y PROVE x = IF a >= b THEN a ELSE b
  BY <1>4
<1>5. \E x \in {a, b} : \A y \in {a, b} : x >= y
  OBVIOUS
<1>6. Max({a, b}) \in {a, b} /\ \A y \in {a, b} : Max({a, b}) >= y
  BY <1>5 DEF Max
<1> QED
  BY <1>1, <1>3, <1>4, <1>6

LEMMA ClipFacts ==
    ASSUME NEW n \in Int, NEW low \in Int, NEW high \in Int, low <= high
    PROVE  /\ Clip(n, low, high) \in low .. high
           /\ n \in low .. high => Clip(n, low, high) = n
           /\ n < low => Clip(n, low, high) = low
           /\ n > high => Clip(n, low, high) = high
<1>1. Min({n, high}) = IF n <= high THEN n ELSE high
  BY MinMax
<1>2. Min({n, high}) \in Int
  BY <1>1
<1>3. Clip(n, low, high) = IF low >= Min({n, high}) THEN low ELSE Min({n, high})
  BY <1>2, MinMax DEF Clip
<1> QED
  BY <1>1, <1>3

(* A set of natural numbers up to m has a greatest one. *)
LEMMA MaxExists ==
    ASSUME NEW m \in Nat, NEW S, S \subseteq 0 .. m, S # {}
    PROVE  Max(S) \in S /\ \A y \in S : Max(S) >= y
<1> DEFINE Above == {m - y : y \in S}
<1>1. Above \subseteq Nat /\ Above # {}
  OBVIOUS
<1>2. PICK z \in Above : \A y \in Above : ~(<<y, z>> \in OpToRel(<, Nat))
  <2> HIDE DEF Above
  <2> QED
    BY <1>1, NatLessThanWellFounded, WFMin
<1>3. \A y \in Above : ~(y < z)
  BY <1>1, <1>2 DEF OpToRel
<1>4. PICK x \in S : z = m - x
  BY <1>2
<1>5. ASSUME NEW y \in S PROVE x >= y
  <2>1. m - y \in Above
    OBVIOUS
  <2>2. ~(m - y < m - x)
    BY <1>3, <1>4, <2>1
  <2> QED
    BY <2>2
<1> QED
  BY <1>5 DEF Max

LEMMA NonemptyType ==
    ASSUME NEW t, NEW s \in Seq(CleanRows)
    PROVE  Nonempty(t, s) \in 0 .. Len(s)
<1>1. Len(s) \in Nat
  BY LenProperties
<1> DEFINE S == {0} \cup {i \in 1 .. Len(s) : i <= t.tinted \/ s[i].text # Blank}
<1>2. S \subseteq 0 .. Len(s) /\ S # {}
  BY <1>1
<1>3. Max(S) \in S
  <2> HIDE DEF S
  <2> QED
    BY <1>1, <1>2, MaxExists
<1> QED
  BY <1>2, <1>3 DEF Nonempty

LEMMA SubSeqFacts ==
    ASSUME NEW S, NEW s \in Seq(S), NEW i \in Nat \ {0}, NEW j \in Int, j <= Len(s)
    PROVE  /\ SubSeq(s, i, j) \in Seq(S)
           /\ Len(SubSeq(s, i, j)) = IF i <= j THEN j - i + 1 ELSE 0
           /\ \A k \in 1 .. j - i + 1 : SubSeq(s, i, j)[k] = s[i + k - 1]
<1>1. Len(s) \in Nat /\ \A k \in 1 .. Len(s) : s[k] \in S
  BY LenProperties, ElementOfSeq
<1>2. \A k \in i .. j : s[k] \in S
  BY <1>1
<1> QED
  BY <1>2, SubSeqProperties

LEMMA LastNFacts ==
    ASSUME NEW S, NEW s \in Seq(S), NEW n \in Nat
    PROVE  /\ LastN(s, n) \in Seq(S)
           /\ Len(LastN(s, n)) = IF n <= Len(s) THEN n ELSE Len(s)
           /\ \A k \in 1 .. Len(LastN(s, n)) :
                 LastN(s, n)[k] = s[Len(s) - Len(LastN(s, n)) + k]
           /\ n >= Len(s) => LastN(s, n) = s
<1>1. Len(s) \in Nat
  BY LenProperties
<1> DEFINE m == Min({n, Len(s)})
<1>2. m = IF n <= Len(s) THEN n ELSE Len(s)
  BY <1>1, MinMax
<1>3. m \in Nat /\ m <= Len(s)
  BY <1>1, <1>2
<1>4. LastN(s, n) = SubSeq(s, Len(s) - m + 1, Len(s))
  BY DEF LastN
<1> HIDE DEF m
<1> DEFINE i == Len(s) - m + 1
<1>5. i \in Nat \ {0}
  BY <1>1, <1>3
<1>6. /\ SubSeq(s, i, Len(s)) \in Seq(S)
      /\ Len(SubSeq(s, i, Len(s))) = IF i <= Len(s) THEN Len(s) - i + 1 ELSE 0
      /\ \A k \in 1 .. Len(s) - i + 1 : SubSeq(s, i, Len(s))[k] = s[i + k - 1]
  <2> HIDE DEF i
  <2> QED
    BY <1>1, <1>5, SubSeqFacts
<1>7. Len(LastN(s, n)) = m
  BY <1>1, <1>3, <1>4, <1>6
<1>8. \A k \in 1 .. m : LastN(s, n)[k] = s[Len(s) - m + k]
  BY <1>1, <1>3, <1>4, <1>6
<1>9. ASSUME n >= Len(s) PROVE LastN(s, n) = s
  <2>1. m = Len(s) /\ i = 1
    BY <1>1, <1>2, <1>9
  <2> QED
    BY <1>4, <2>1, SubSeqFull
<1> QED
  BY <1>2, <1>4, <1>6, <1>7, <1>8, <1>9

LEMMA BlanksFacts ==
    ASSUME NEW n \in Nat
    PROVE  /\ Blanks(n) \in Seq(CleanRows)
           /\ Len(Blanks(n)) = n
           /\ \A i \in 1 .. n : Blanks(n)[i] = Row(Blank)
<1>1. Row(Blank) \in CleanRows
  BY DEF Row, Blank, CleanRows
<1>2. Blanks(n) \in [1 .. n -> CleanRows]
  BY <1>1 DEF Blanks
<1>3. Blanks(n) \in Seq(CleanRows)
  BY <1>2, SeqDef
<1>4. Len(Blanks(n)) \in Nat /\ DOMAIN Blanks(n) = 1 .. Len(Blanks(n))
  BY <1>3, LenProperties
<1>5. DOMAIN Blanks(n) = 1 .. n
  BY DEF Blanks
<1>6. Len(Blanks(n)) = n
  <2> DEFINE l == Len(Blanks(n))
  <2>1. l \in Nat /\ 1 .. l = 1 .. n
    BY <1>4, <1>5
  <2> HIDE DEF l
  <2>2. l \in 1 .. l \/ l = 0
    BY <2>1
  <2>3. n \in 1 .. n \/ n = 0
    OBVIOUS
  <2> QED
    BY <2>1, <2>2, <2>3, SMTT(40) DEF l
<1> QED
  BY <1>3, <1>6 DEF Blanks

LEMMA RowTypes ==
    /\ CleanRows \subseteq Rows
    /\ Seq(CleanRows) \subseteq Seq(Rows)
    /\ \A n \in Nat : Row(n) \in CleanRows
<1>1. CleanRows \subseteq Rows
  BY DEF CleanRows, Rows
<1>2. \A s \in Seq(CleanRows) : s \in Seq(Rows)
  BY <1>1, SeqMonotonic
<1> QED
  BY <1>1, <1>2 DEF Row, CleanRows

(* The concatenation of two sequences, as an operator of its own. *)
Cat(a, b) == a \o b

LEMMA CatFacts ==
    ASSUME NEW S, NEW a \in Seq(S), NEW b \in Seq(S)
    PROVE  /\ Cat(a, b) \in Seq(S)
           /\ Len(Cat(a, b)) = Len(a) + Len(b)
           /\ \A i \in 1 .. Len(a) + Len(b) :
                 Cat(a, b)[i] = IF i <= Len(a) THEN a[i] ELSE b[i - Len(a)]
           /\ Cat(<<>>, a) = a /\ Cat(a, <<>>) = a
<1>1. /\ a \o b \in Seq(S)
      /\ Len(a \o b) = Len(a) + Len(b)
      /\ \A i \in 1 .. Len(a) + Len(b) :
            (a \o b)[i] = IF i <= Len(a) THEN a[i] ELSE b[i - Len(a)]
  BY ConcatProperties, Zenon
<1>2. <<>> \o a = a /\ a \o <<>> = a
  BY ConcatEmptySeq, Zenon
<1>3. Cat(a, b) = a \o b /\ Cat(<<>>, a) = <<>> \o a /\ Cat(a, <<>>) = a \o <<>>
  BY Zenon DEF Cat
<1> QED
  BY <1>1, <1>2, <1>3, Zenon

-------------------------------------------------------------------------------
(* The functions of the terminal preserve the invariant.                    *)

LEMMA CfgFacts ==
    ASSUME cfg \in Configs
    PROVE  /\ cfg.savelines \in Nat /\ cfg.erase_to_scrollback \in BOOLEAN
           /\ cfg.no_alt_screen \in BOOLEAN /\ cfg.dec_om \in BOOLEAN
BY TerminalAssumption DEF TerminalAssumption

LEMMA SbLinesNat ==
    ASSUME cfg \in Configs, NEW t \in Terminals
    PROVE  SbLines(t) \in Nat
<1>1. t.scrollback \in Seq(Rows) /\ t.alt_sblines \in Nat
  BY DEF Terminals
<1>2. Len(t.scrollback) \in Nat
  BY <1>1, LenProperties
<1> QED
  BY <1>1, <1>2 DEF SbLines

(* The rows that leave the region by the top go to the scrollback. *)
Gone(t, top, bot, n) == SubSeq(Cat(SubSeq(t.screen, top + 1, bot + 1), Blanks(n)), 1, n)

Pushed(t, top, bot, n, sb, erased) ==
    IF ToScrollback(t, top, sb) /\ cfg.savelines > 0
    THEN [i \in DOMAIN Gone(t, top, bot, n) |->
             [Gone(t, top, bot, n)[i] EXCEPT !.erased = erased]]
    ELSE <<>>

LEMMA PushedFacts ==
    ASSUME cfg \in Configs, NEW t, Sound(t), NEW top \in Nat, NEW bot \in Nat,
           bot < t.rows, NEW n \in Nat, NEW sb \in BOOLEAN, NEW erased \in BOOLEAN
    PROVE  /\ Pushed(t, top, bot, n, sb, erased) \in Seq(Rows)
           /\ ~erased => Pushed(t, top, bot, n, sb, erased) \in Seq(CleanRows)
           /\ t.alt_which = 1 => Pushed(t, top, bot, n, sb, erased) = <<>>
<1>1. t.screen \in Seq(CleanRows) /\ t.rows \in Nat /\ Len(t.screen) = t.rows
  BY DEF Sound, Terminals
<1>2. SubSeq(t.screen, top + 1, bot + 1) \in Seq(CleanRows)
  <2>1. top + 1 \in Nat \ {0} /\ bot + 1 \in Int /\ bot + 1 <= Len(t.screen)
    BY <1>1
  <2> QED
    BY <1>1, <2>1, SubSeqFacts
<1> DEFINE all == Cat(SubSeq(t.screen, top + 1, bot + 1), Blanks(n))
<1>3. all \in Seq(CleanRows) /\ n <= Len(all)
  <2>1. Blanks(n) \in Seq(CleanRows) /\ Len(Blanks(n)) = n
    BY BlanksFacts
  <2>2. Len(SubSeq(t.screen, top + 1, bot + 1)) \in Nat
    BY <1>2, LenProperties
  <2>3. all \in Seq(CleanRows)
    BY <1>2, <2>1, CatFacts
  <2>4. Len(all) = Len(SubSeq(t.screen, top + 1, bot + 1)) + Len(Blanks(n))
    BY <1>2, <2>1, CatFacts
  <2> QED
    BY <2>1, <2>2, <2>3, <2>4
<1>4. Gone(t, top, bot, n) = SubSeq(all, 1, n)
  BY DEF Gone
<1> HIDE DEF all
<1> DEFINE g == Gone(t, top, bot, n)
<1>5. g \in Seq(CleanRows)
  BY <1>3, <1>4, SubSeqFacts
<1> HIDE DEF g
<1> DEFINE f == [i \in DOMAIN g |-> [g[i] EXCEPT !.erased = erased]]
<1>6. Len(g) \in Nat /\ DOMAIN g = 1 .. Len(g) /\ \A i \in 1 .. Len(g) : g[i] \in CleanRows
  BY <1>5, LenProperties, ElementOfSeq
<1>7. \A i \in 1 .. Len(g) : [g[i] EXCEPT !.erased = erased] \in Rows
  BY <1>6 DEF CleanRows, Rows
<1>8. f \in Seq(Rows)
  <2>1. f \in [1 .. Len(g) -> Rows]
    BY <1>6, <1>7
  <2> QED
    BY <1>6, <2>1, SeqDef
<1>9. ASSUME ~erased PROVE f \in Seq(CleanRows)
  <2>1. \A i \in 1 .. Len(g) : [g[i] EXCEPT !.erased = erased] \in CleanRows
    BY <1>6, <1>9 DEF CleanRows
  <2>2. f \in [1 .. Len(g) -> CleanRows]
    BY <1>6, <2>1
  <2> QED
    BY <1>6, <2>2, SeqDef
<1>10. Pushed(t, top, bot, n, sb, erased)
          = IF ToScrollback(t, top, sb) /\ cfg.savelines > 0 THEN f ELSE <<>>
  BY DEF Pushed, g
<1> HIDE DEF f
<1>11. t.alt_which = 1 => ~ToScrollback(t, top, sb)
  BY DEF ToScrollback
<1>12. <<>> \in Seq(Rows) /\ <<>> \in Seq(CleanRows)
  BY EmptySeq
<1> QED
  BY <1>8, <1>9, <1>10, <1>11, <1>12

(* Lines are added to the scrollback s, of which n may be brought back; the *)
(* oldest ones leave it.                                                    *)
Kept(s, p, limit) == LastN(Cat(s, p), limit)
KeptBack(s, p, n, limit) == n + Min({Len(p), limit - Len(s)})

LEMMA KeptFacts ==
    ASSUME NEW s \in Seq(Rows), NEW p \in Seq(Rows), NEW limit \in Nat, Len(s) <= limit
    PROVE  /\ Kept(s, p, limit) \in Seq(Rows)
           /\ Len(Kept(s, p, limit)) \in Nat
           /\ Len(Kept(s, p, limit)) <= limit
           /\ Len(Kept(s, p, limit)) >= Len(s)
           /\ \/ Len(Kept(s, p, limit)) = limit
              \/ Len(Kept(s, p, limit)) = Len(s) + Len(p)
           /\ p = <<>> =>
                 Kept(s, p, limit) = s /\ \A n \in Nat : KeptBack(s, p, n, limit) = n
<1>1. Len(s) \in Nat /\ Len(p) \in Nat
  BY LenProperties
<1> DEFINE all == Cat(s, p)
           r == Kept(s, p, limit)
<1>2. all \in Seq(Rows) /\ Len(all) = Len(s) + Len(p) /\ (p = <<>> => all = s)
  BY CatFacts
<1>3. r = LastN(all, limit)
  BY DEF Kept
<1> HIDE DEF all, r
<1>4. /\ r \in Seq(Rows)
      /\ Len(r) = IF limit <= Len(all) THEN limit ELSE Len(all)
      /\ limit >= Len(all) => r = all
  BY <1>2, <1>3, LastNFacts
<1>5. /\ Len(r) \in Nat /\ Len(r) <= limit /\ Len(r) >= Len(s)
      /\ Len(r) = limit \/ Len(r) = Len(s) + Len(p)
  BY <1>1, <1>2, <1>4
<1>6. ASSUME p = <<>>, NEW n \in Nat PROVE r = s /\ KeptBack(s, p, n, limit) = n
  <2>1. Len(p) = 0
    BY <1>6, EmptySeq
  <2>2. limit >= Len(all) /\ all = s
    BY <1>1, <1>2, <1>6, <2>1
  <2>3. Min({Len(p), limit - Len(s)}) = IF 0 <= limit - Len(s) THEN 0 ELSE limit - Len(s)
    BY <1>1, <2>1, MinMax
  <2> QED
    BY <1>1, <1>4, <2>2, <2>3 DEF KeptBack
<1>7. p = <<>> => r = s /\ \A n \in Nat : KeptBack(s, p, n, limit) = n
  BY <1>6
<1> QED
  BY <1>4, <1>5, <1>7 DEF r

LEMMA Remembered ==
    ASSUME NEW s \in Seq(Rows), NEW p \in Seq(Rows), NEW n \in Nat, NEW limit \in Nat,
           n <= Len(s), Len(s) <= limit
    PROVE  /\ Kept(s, p, limit) \in Seq(Rows)
           /\ KeptBack(s, p, n, limit) \in Nat
           /\ KeptBack(s, p, n, limit) <= Len(Kept(s, p, limit))
           /\ ((\A i \in 1 .. Len(s) : i > Len(s) - n => s[i] \in CleanRows)
                   /\ p \in Seq(CleanRows))
              => \A i \in 1 .. Len(Kept(s, p, limit)) :
                    i > Len(Kept(s, p, limit)) - KeptBack(s, p, n, limit)
                        => Kept(s, p, limit)[i] \in CleanRows
<1> DEFINE r == Kept(s, p, limit)
           m == KeptBack(s, p, n, limit)
<1>1. Len(s) \in Nat /\ Len(p) \in Nat
  BY LenProperties
<1> DEFINE all == Cat(s, p)
<1>2. /\ all \in Seq(Rows) /\ Len(all) = Len(s) + Len(p)
      /\ \A i \in 1 .. Len(s) + Len(p) : all[i] = IF i <= Len(s) THEN s[i] ELSE p[i - Len(s)]
      /\ p = <<>> => all = s
  BY CatFacts
<1>3. r = LastN(all, limit) /\ m = n + Min({Len(p), limit - Len(s)})
  BY DEF Kept, KeptBack
<1> HIDE DEF all, r, m
<1>4. /\ r \in Seq(Rows)
      /\ Len(r) = IF limit <= Len(all) THEN limit ELSE Len(all)
      /\ \A k \in 1 .. Len(r) : r[k] = all[Len(all) - Len(r) + k]
      /\ limit >= Len(all) => r = all
  <2>1. all \in Seq(Rows)
    BY <1>2
  <2> DEFINE l == LastN(all, limit)
  <2>2. /\ l \in Seq(Rows)
        /\ Len(l) = IF limit <= Len(all) THEN limit ELSE Len(all)
        /\ \A k \in 1 .. Len(l) : l[k] = all[Len(all) - Len(l) + k]
        /\ limit >= Len(all) => l = all
    BY <2>1, LastNFacts
  <2> QED
    BY <1>3, <2>2
<1>5. Min({Len(p), limit - Len(s)})
          = IF Len(p) <= limit - Len(s) THEN Len(p) ELSE limit - Len(s)
  BY <1>1, MinMax
<1>6. /\ Len(r) \in Nat /\ m \in Nat /\ m <= Len(r) /\ Len(r) <= limit /\ Len(r) >= Len(s)
      /\ Len(r) = limit \/ Len(r) = Len(s) + Len(p)
      /\ Len(r) - m = Len(s) - n
  BY <1>1, <1>2, <1>3, <1>4, <1>5, SMTT(40)
<1>8. ASSUME \A i \in 1 .. Len(s) : i > Len(s) - n => s[i] \in CleanRows,
             p \in Seq(CleanRows), NEW i \in 1 .. Len(r), i > Len(r) - m
      PROVE  r[i] \in CleanRows
  <2> DEFINE j == Len(all) - Len(r) + i
  <2>1. r[i] = all[j] /\ j \in 1 .. Len(s) + Len(p) /\ j > Len(s) - n
    <3>1. r[i] = all[j]
      BY <1>4
    <3>2. Len(all) = Len(s) + Len(p) /\ Len(r) <= Len(all)
      BY <1>1, <1>2, <1>4
    <3>3. i \in 1 .. Len(r) /\ i > Len(s) - n
      BY <1>6, <1>8
    <3> QED
      BY <1>1, <1>6, <3>1, <3>2, <3>3
  <2> HIDE DEF j
  <2>2. CASE j <= Len(s)
    BY <1>1, <1>2, <1>8, <2>1, <2>2
  <2>3. CASE j > Len(s)
    <3>1. j - Len(s) \in 1 .. Len(p) /\ all[j] = p[j - Len(s)]
      BY <1>1, <1>2, <2>1, <2>3
    <3> QED
      BY <1>8, <2>1, <3>1, ElementOfSeq
  <2> QED
    BY <1>1, <2>1, <2>2, <2>3
<1> QED
  BY <1>4, <1>6, <1>8 DEF r, m

LEMMA ScrollFacts ==
    ASSUME cfg \in Configs, NEW t, Sound(t), NEW top \in Nat, NEW bot \in Nat, top <= bot,
           bot < t.rows, NEW n \in Nat, NEW sb \in BOOLEAN, NEW erased \in BOOLEAN
    PROVE  /\ Sound(Scroll(t, top, bot, n, sb, erased))
           /\ Within(t, Scroll(t, top, bot, n, sb, erased))
           /\ Restorable(t) /\ (~erased \/ t.alt_which = 1)
                => Restorable(Scroll(t, top, bot, n, sb, erased))
<1> DEFINE u == Scroll(t, top, bot, n, sb, erased)
           region == SubSeq(t.screen, top + 1, bot + 1)
           upper == SubSeq(t.screen, 1, top)
           below == SubSeq(t.screen, bot + 2, Len(t.screen))
           new == LastN(Cat(region, Blanks(n)), bot - top + 1)
           pushed == Pushed(t, top, bot, n, sb, erased)
           scr == Cat(Cat(upper, new), below)
           back == Kept(t.scrollback, pushed, cfg.savelines)
           temps == KeptBack(t.scrollback, pushed, t.tempsblines, cfg.savelines)
           disp == IF t.disptop < 0 THEN Max({t.disptop - Len(pushed), -cfg.savelines})
                   ELSE t.disptop
<1>1. /\ t \in Terminals /\ t.screen \in Seq(CleanRows) /\ t.rows \in Nat
      /\ t.scrollback \in Seq(Rows) /\ t.tempsblines \in Nat /\ t.disptop \in Int
      /\ Len(t.screen) = t.rows /\ cfg.savelines \in Nat
      /\ t.alt_sblines \in Nat /\ t.alt_which \in {0, 1}
  BY CfgFacts DEF Sound, Terminals
<1>2. u = [t EXCEPT !.screen = scr, !.scrollback = back, !.tempsblines = temps,
                    !.disptop = disp]
  <2>1. ~(top < 0)
    OBVIOUS
  <2> QED
    BY <2>1, Zenon DEF Scroll, Pushed, Gone, Kept, KeptBack, Cat
<1>3. scr \in Seq(CleanRows) /\ Len(scr) = t.rows
  <2>1. upper \in Seq(CleanRows) /\ Len(upper) = top
    <3>1. top \in Int /\ top <= Len(t.screen) /\ 1 \in Nat \ {0}
      BY <1>1
    <3> QED
      BY <1>1, <3>1, SubSeqFacts
  <2>2. below \in Seq(CleanRows) /\ Len(below) = t.rows - bot - 1
    <3>1. bot + 2 \in Nat \ {0} /\ Len(t.screen) \in Int /\ Len(t.screen) <= Len(t.screen)
      BY <1>1
    <3>2. /\ below \in Seq(CleanRows)
          /\ Len(below) = IF bot + 2 <= Len(t.screen) THEN Len(t.screen) - (bot + 2) + 1 ELSE 0
      BY <1>1, <3>1, SubSeqFacts
    <3> QED
      BY <1>1, <3>2
  <2>3. region \in Seq(CleanRows) /\ Len(region) = bot - top + 1
    <3>1. top + 1 \in Nat \ {0} /\ bot + 1 \in Int /\ bot + 1 <= Len(t.screen)
      BY <1>1
    <3>2. /\ region \in Seq(CleanRows)
          /\ Len(region) = IF top + 1 <= bot + 1 THEN (bot + 1) - (top + 1) + 1 ELSE 0
      BY <1>1, <3>1, SubSeqFacts
    <3> QED
      BY <3>2
  <2>4. Blanks(n) \in Seq(CleanRows) /\ Len(Blanks(n)) = n
    BY BlanksFacts
  <2> HIDE DEF region, upper, below
  <2> DEFINE longer == Cat(region, Blanks(n))
  <2>5. longer \in Seq(CleanRows) /\ Len(longer) = Len(region) + Len(Blanks(n))
    BY <2>3, <2>4, CatFacts
  <2>6. new = LastN(longer, bot - top + 1)
    OBVIOUS
  <2> HIDE DEF longer, new
  <2>7. new \in Seq(CleanRows) /\ Len(new) = bot - top + 1
    <3>1. bot - top + 1 \in Nat /\ bot - top + 1 <= Len(longer)
      BY <2>3, <2>4, <2>5
    <3>2. /\ new \in Seq(CleanRows)
          /\ Len(new) = IF bot - top + 1 <= Len(longer) THEN bot - top + 1 ELSE Len(longer)
      BY <2>5, <2>6, <3>1, LastNFacts
    <3> QED
      BY <3>1, <3>2
  <2>8. Cat(upper, new) \in Seq(CleanRows) /\ Len(Cat(upper, new)) = Len(upper) + Len(new)
    BY <2>1, <2>7, CatFacts
  <2>9. scr \in Seq(CleanRows) /\ Len(scr) = Len(Cat(upper, new)) + Len(below)
    BY <2>2, <2>8, CatFacts
  <2> QED
    BY <1>1, <2>1, <2>2, <2>7, <2>8, <2>9, SMTT(40)
<1>4. /\ pushed \in Seq(Rows)
      /\ ~erased => pushed \in Seq(CleanRows)
      /\ t.alt_which = 1 => pushed = <<>>
  BY PushedFacts, ZenonT(60)
<1>5. Len(pushed) \in Nat /\ (pushed = <<>> => Len(pushed) = 0)
  BY <1>4, LenProperties, EmptySeq
<1>6. Len(t.scrollback) \in Nat /\ t.tempsblines <= Len(t.scrollback)
        /\ Len(t.scrollback) <= cfg.savelines
  BY <1>1, LenProperties DEF Sound
<1> HIDE DEF region, upper, below, new, pushed, scr
<1>7. /\ back \in Seq(Rows) /\ temps \in Nat /\ temps <= Len(back)
      /\ Len(back) <= cfg.savelines /\ Len(back) >= Len(t.scrollback)
      /\ Len(back) = cfg.savelines \/ Len(back) = Len(t.scrollback) + Len(pushed)
      /\ pushed = <<>> => back = t.scrollback /\ temps = t.tempsblines
      /\ ((\A i \in 1 .. Len(t.scrollback) :
               i > Len(t.scrollback) - t.tempsblines => t.scrollback[i] \in CleanRows)
            /\ pushed \in Seq(CleanRows))
         => \A i \in 1 .. Len(back) : i > Len(back) - temps => back[i] \in CleanRows
  <2>1. /\ t.scrollback \in Seq(Rows) /\ pushed \in Seq(Rows) /\ t.tempsblines \in Nat
        /\ cfg.savelines \in Nat
        /\ t.tempsblines <= Len(t.scrollback) /\ Len(t.scrollback) <= cfg.savelines
    BY <1>1, <1>4, <1>6
  <2>2. back \in Seq(Rows) /\ temps \in Nat /\ temps <= Len(back)
    BY <2>1, Remembered
  <2>3. /\ Len(back) <= cfg.savelines /\ Len(back) >= Len(t.scrollback)
        /\ Len(back) = cfg.savelines \/ Len(back) = Len(t.scrollback) + Len(pushed)
    BY <2>1, KeptFacts
  <2>4. pushed = <<>> => back = t.scrollback /\ temps = t.tempsblines
    <3>1. /\ pushed = <<>> => back = t.scrollback
          /\ pushed = <<>> => \A m \in Nat :
                KeptBack(t.scrollback, pushed, m, cfg.savelines) = m
      BY <2>1, KeptFacts, Zenon
    <3> QED
      BY <2>1, <3>1
  <2>5. ((\A i \in 1 .. Len(t.scrollback) :
               i > Len(t.scrollback) - t.tempsblines => t.scrollback[i] \in CleanRows)
            /\ pushed \in Seq(CleanRows))
         => \A i \in 1 .. Len(back) : i > Len(back) - temps => back[i] \in CleanRows
    BY <2>1, Remembered
  <2> QED
    BY <2>2, <2>3, <2>4, <2>5
<1>8. Len(back) \in Nat
  BY <1>7, LenProperties
<1> HIDE DEF back, temps
<1>9. /\ disp \in Int
      /\ t.disptop <= 0 => disp <= 0
      /\ t.disptop + Len(t.scrollback) >= 0 => disp + Len(back) >= 0
      /\ pushed = <<>> => disp >= t.disptop
  <2>1. Max({t.disptop - Len(pushed), -cfg.savelines})
           = IF t.disptop - Len(pushed) >= -cfg.savelines THEN t.disptop - Len(pushed)
             ELSE -cfg.savelines
    <3>1. t.disptop - Len(pushed) \in Int /\ -cfg.savelines \in Int
      BY <1>1, <1>5
    <3> QED
      BY <3>1, MinMax
  <2>2. \/ t.disptop >= 0 /\ disp = t.disptop
        \/ /\ t.disptop < 0 /\ disp = t.disptop - Len(pushed)
           /\ t.disptop - Len(pushed) >= -cfg.savelines
        \/ /\ t.disptop < 0 /\ disp = -cfg.savelines
           /\ t.disptop - Len(pushed) < -cfg.savelines
    BY <1>1, <1>5, <2>1
  <2>3. /\ disp \in Int
        /\ t.disptop <= 0 => disp <= 0
        /\ Len(pushed) = 0 => disp >= t.disptop
    BY <1>1, <1>5, <2>2
  <2> DEFINE l == Len(t.scrollback)
             k == Len(back)
             q == Len(pushed)
  <2>4. /\ l \in Nat /\ k \in Nat /\ q \in Nat /\ l <= k /\ l <= cfg.savelines
        /\ k = cfg.savelines \/ k = l + q
    BY <1>5, <1>6, <1>7, <1>8
  <2> HIDE DEF disp, l, k, q
  <2>5. t.disptop + l >= 0 => disp + k >= 0
    BY <1>1, <2>2, <2>4, SMTT(40) DEF q
  <2> QED
    BY <1>5, <2>3, <2>5 DEF l, k
<1> HIDE DEF disp
<1>10. /\ u \in Terminals /\ u.screen = scr /\ u.scrollback = back /\ u.tempsblines = temps
       /\ u.disptop = disp
       /\ u.rows = t.rows /\ u.cols = t.cols /\ u.alt_screen = t.alt_screen
       /\ u.alt_sblines = t.alt_sblines /\ u.alt_which = t.alt_which
       /\ u.curs = t.curs /\ u.alt_curs = t.alt_curs /\ u.save = t.save
       /\ u.alt_save = t.alt_save /\ u.mode = t.mode /\ u.alt_mode = t.alt_mode
  BY <1>1, <1>2, <1>3, <1>7, <1>9, ZenonT(60) DEF Terminals
<1> HIDE DEF u
<1>11. Sound(u)
  BY <1>3, <1>7, <1>10 DEF Sound, Fits, Region
<1>12. Seen(t) => Seen(u)
  <2>1. CASE t.alt_which = 1
    <3>1. pushed = <<>> /\ back = t.scrollback
      BY <1>4, <1>7, <2>1
    <3>2. SbLines(u) = SbLines(t)
      BY <1>10, <3>1 DEF SbLines
    <3>3. SbLines(t) \in Nat
      BY <1>1, SbLinesNat
    <3> QED
      BY <1>1, <1>9, <1>10, <3>1, <3>2, <3>3 DEF Seen
  <2>2. CASE t.alt_which = 0
    <3>1. SbLines(u) = Len(back) /\ SbLines(t) = Len(t.scrollback)
      BY <1>6, <1>8, <1>10, <2>2 DEF SbLines
    <3> QED
      BY <1>1, <1>6, <1>8, <1>9, <1>10, <3>1 DEF Seen
  <2> QED
    BY <1>1, <2>1, <2>2
<1>13. Within(t, u)
  BY <1>4, <1>7, <1>10, <1>12 DEF Within
<1>14. ASSUME Restorable(t), ~erased \/ t.alt_which = 1 PROVE Restorable(u)
  <2>1. pushed \in Seq(CleanRows)
    BY <1>4, <1>14, EmptySeq
  <2> QED
    BY <1>7, <1>10, <1>14, <2>1 DEF Restorable
<1> QED
  BY <1>11, <1>13, <1>14 DEF u

(* An operation on the screen that is shown is sound. *)
Ok(t, u) == Fine(u) /\ Within(t, u)

LEMMA OkChains ==
    ASSUME NEW t, NEW u, NEW v, Ok(t, u), Ok(u, v)
    PROVE  Ok(t, v)
BY DEF Ok, Within

LEMMA OkStays ==
    ASSUME NEW t, Fine(t)
    PROVE  Ok(t, t)
BY DEF Ok, Within

Fields(t) ==
    /\ t \in Terminals
    /\ t.rows \in Nat \ {0, 1} /\ t.cols \in Nat \ {0, 1}
    /\ t.screen \in Seq(CleanRows) /\ t.alt_screen \in Seq(CleanRows)
    /\ Len(t.screen) = t.rows /\ Len(t.alt_screen) = t.rows
    /\ t.scrollback \in Seq(Rows) /\ Len(t.scrollback) \in Nat
    /\ t.tempsblines \in Nat /\ t.alt_sblines \in Nat /\ t.disptop \in Int
    /\ t.alt_which \in {0, 1}
    /\ t.curs \in Points /\ t.alt_curs \in Points
    /\ t.curs.x \in 0 .. t.cols - 1 /\ t.curs.y \in 0 .. t.rows - 1
    /\ t.save \in Saves /\ t.alt_save \in Saves
    /\ t.mode \in ModeStates /\ t.alt_mode \in ModeStates
    /\ t.mode.t \in Nat /\ t.mode.b \in Nat /\ t.mode.t < t.mode.b /\ t.mode.b < t.rows
    /\ t.mode.om \in BOOLEAN /\ t.mode.wrap \in BOOLEAN /\ t.mode.wnext \in BOOLEAN

LEMMA Here ==
    ASSUME NEW t, Sound(t)
    PROVE  Fields(t)
<1>1. t \in Terminals /\ t.scrollback \in Seq(Rows)
  BY DEF Sound, Terminals
<1>2. Len(t.scrollback) \in Nat
  BY <1>1, LenProperties
<1>3. /\ t.rows \in Nat \ {0, 1} /\ t.cols \in Nat \ {0, 1}
      /\ t.screen \in Seq(CleanRows) /\ t.alt_screen \in Seq(CleanRows)
      /\ Len(t.screen) = t.rows /\ Len(t.alt_screen) = t.rows
  BY DEF Sound, Terminals
<1>4. /\ t.tempsblines \in Nat /\ t.alt_sblines \in Nat /\ t.disptop \in Int
      /\ t.alt_which \in {0, 1}
      /\ t.curs \in Points /\ t.alt_curs \in Points
      /\ t.save \in Saves /\ t.alt_save \in Saves
      /\ t.mode \in ModeStates /\ t.alt_mode \in ModeStates
  BY <1>1 DEF Terminals
<1>5. t.curs.x \in 0 .. t.cols - 1 /\ t.curs.y \in 0 .. t.rows - 1
  BY <1>3, <1>4 DEF Sound, Fits, Points
<1>6. /\ t.mode.t \in Nat /\ t.mode.b \in Nat /\ t.mode.t < t.mode.b /\ t.mode.b < t.rows
      /\ t.mode.om \in BOOLEAN /\ t.mode.wrap \in BOOLEAN /\ t.mode.wnext \in BOOLEAN
  BY <1>4 DEF Sound, Region, ModeStates
<1> QED
  BY <1>1, <1>2, <1>3, <1>4, <1>5, <1>6 DEF Fields

(* What is changed is the screen that is shown, its cursors and its modes. *)
LEMMA Shown ==
    ASSUME NEW t, Fine(t), NEW u \in Terminals,
           u.rows = t.rows, u.cols = t.cols, u.alt_screen = t.alt_screen,
           u.scrollback = t.scrollback, u.tempsblines = t.tempsblines,
           u.alt_sblines = t.alt_sblines, u.disptop = t.disptop,
           u.alt_which = t.alt_which, u.alt_curs = t.alt_curs,
           u.alt_save = t.alt_save,
           Region(t, u.alt_mode), Len(u.screen) = t.rows, Fits(t, u.curs), Region(t, u.mode),
           u.save.curs.y >= 0
    PROVE  Ok(t, u)
<1>1. Sound(u)
  BY DEF Fine, Sound, Fits, Region
<1>2. Restorable(u)
  BY DEF Fine, Restorable
<1>3. SbLines(u) = SbLines(t)
  BY DEF SbLines
<1> QED
  BY <1>1, <1>2, <1>3 DEF Ok, Fine, Within, Seen

LEMMA ScreenShown ==
    ASSUME NEW t, Fine(t), NEW s \in Seq(CleanRows), Len(s) = t.rows
    PROVE  Ok(t, [t EXCEPT !.screen = s])
<1> DEFINE u == [t EXCEPT !.screen = s]
<1>1. Fields(t)
  BY Here DEF Fine
<1>2. /\ u \in Terminals /\ u.screen = s
      /\ u.rows = t.rows /\ u.cols = t.cols /\ u.alt_screen = t.alt_screen
      /\ u.scrollback = t.scrollback /\ u.tempsblines = t.tempsblines
      /\ u.alt_sblines = t.alt_sblines /\ u.disptop = t.disptop
      /\ u.alt_which = t.alt_which /\ u.curs = t.curs /\ u.alt_curs = t.alt_curs
      /\ u.save = t.save /\ u.alt_save = t.alt_save /\ u.mode = t.mode
      /\ u.alt_mode = t.alt_mode
  BY <1>1 DEF Fields, Terminals
<1> HIDE DEF u
<1>3. /\ Region(t, t.alt_mode) /\ Fits(t, t.curs) /\ Region(t, t.mode)
      /\ t.save.curs.y >= 0
  BY DEF Fine, Sound
<1>4. Ok(t, u)
  BY <1>2, <1>3, Shown
<1> QED
  BY <1>4 DEF u

(* The cursor is put somewhere, and the modes change. *)
LEMMA CursorShown ==
    ASSUME NEW t, Fine(t), NEW c \in Points, Fits(t, c), NEW m \in ModeStates, Region(t, m)
    PROVE  Ok(t, [t EXCEPT !.curs = c, !.mode = m])
<1> DEFINE u == [t EXCEPT !.curs = c, !.mode = m]
<1>1. Fields(t)
  BY Here DEF Fine
<1>2. /\ u \in Terminals /\ u.screen = t.screen
      /\ u.rows = t.rows /\ u.cols = t.cols /\ u.alt_screen = t.alt_screen
      /\ u.scrollback = t.scrollback /\ u.tempsblines = t.tempsblines
      /\ u.alt_sblines = t.alt_sblines /\ u.disptop = t.disptop
      /\ u.alt_which = t.alt_which /\ u.curs = c /\ u.alt_curs = t.alt_curs
      /\ u.save = t.save /\ u.alt_save = t.alt_save /\ u.mode = m
      /\ u.alt_mode = t.alt_mode
  BY <1>1 DEF Fields, Terminals
<1> HIDE DEF u
<1>3. /\ Region(t, t.alt_mode) /\ t.save.curs.y >= 0 /\ Len(t.screen) = t.rows
  BY DEF Fine, Sound
<1>4. Ok(t, u)
  BY <1>2, <1>3, Shown
<1> QED
  BY <1>4 DEF u

LEMMA ScrollOk ==
    ASSUME cfg \in Configs, NEW t, Fine(t), NEW top \in Nat, NEW bot \in Nat, top <= bot,
           bot < t.rows, NEW n \in Nat
    PROVE  Ok(t, Scroll(t, top, bot, n, TRUE, FALSE))
<1>1. /\ Sound(Scroll(t, top, bot, n, TRUE, FALSE))
      /\ Within(t, Scroll(t, top, bot, n, TRUE, FALSE))
      /\ Restorable(t) /\ (~FALSE \/ t.alt_which = 1)
              => Restorable(Scroll(t, top, bot, n, TRUE, FALSE))
  <2>1. Sound(t)
    BY DEF Fine
  <2> QED
    BY <2>1, ScrollFacts, Zenon
<1> QED
  BY <1>1 DEF Ok, Fine

LEMMA ScrollDownOk ==
    ASSUME cfg \in Configs, NEW t, Fine(t), NEW top \in Nat, NEW bot \in Nat, top <= bot,
           bot < t.rows, NEW n \in Nat
    PROVE  Ok(t, ScrollDown(t, top, bot, n))
<1> DEFINE region == SubSeq(t.screen, top + 1, bot + 1)
           upper == SubSeq(t.screen, 1, top)
           below == SubSeq(t.screen, bot + 2, Len(t.screen))
           longer == Cat(Blanks(n), region)
           new == SubSeq(longer, 1, bot - top + 1)
           scr == Cat(Cat(upper, new), below)
<1>1. t.screen \in Seq(CleanRows) /\ t.rows \in Nat /\ Len(t.screen) = t.rows
  BY Here DEF Fine, Fields
<1>2. ScrollDown(t, top, bot, n) = [t EXCEPT !.screen = scr]
  <2>1. ~(top < 0)
    OBVIOUS
  <2> QED
    BY <2>1, Zenon DEF ScrollDown, Cat
<1>3. upper \in Seq(CleanRows) /\ Len(upper) = top
  <2>1. top \in Int /\ top <= Len(t.screen) /\ 1 \in Nat \ {0}
    BY <1>1
  <2> QED
    BY <1>1, <2>1, SubSeqFacts
<1>4. below \in Seq(CleanRows) /\ Len(below) = t.rows - bot - 1
  <2>1. bot + 2 \in Nat \ {0} /\ Len(t.screen) \in Int /\ Len(t.screen) <= Len(t.screen)
    BY <1>1
  <2>2. /\ below \in Seq(CleanRows)
        /\ Len(below) = IF bot + 2 <= Len(t.screen) THEN Len(t.screen) - (bot + 2) + 1 ELSE 0
    BY <1>1, <2>1, SubSeqFacts
  <2> QED
    BY <1>1, <2>2
<1>5. region \in Seq(CleanRows) /\ Len(region) = bot - top + 1
  <2>1. top + 1 \in Nat \ {0} /\ bot + 1 \in Int /\ bot + 1 <= Len(t.screen)
    BY <1>1
  <2>2. /\ region \in Seq(CleanRows)
        /\ Len(region) = IF top + 1 <= bot + 1 THEN (bot + 1) - (top + 1) + 1 ELSE 0
    BY <1>1, <2>1, SubSeqFacts
  <2> QED
    BY <2>2
<1>6. Blanks(n) \in Seq(CleanRows) /\ Len(Blanks(n)) = n
  BY BlanksFacts
<1> HIDE DEF region, upper, below
<1>7. longer \in Seq(CleanRows) /\ Len(longer) = Len(Blanks(n)) + Len(region)
  BY <1>5, <1>6, CatFacts
<1> HIDE DEF longer
<1>8. new \in Seq(CleanRows) /\ Len(new) = bot - top + 1
  <2>1. 1 \in Nat \ {0} /\ bot - top + 1 \in Int /\ bot - top + 1 <= Len(longer)
    BY <1>5, <1>6, <1>7
  <2>2. /\ new \in Seq(CleanRows)
        /\ Len(new) = IF 1 <= bot - top + 1 THEN (bot - top + 1) - 1 + 1 ELSE 0
    BY <1>7, <2>1, SubSeqFacts
  <2> QED
    BY <2>2
<1> HIDE DEF new
<1>9. Cat(upper, new) \in Seq(CleanRows) /\ Len(Cat(upper, new)) = Len(upper) + Len(new)
  BY <1>3, <1>8, CatFacts
<1>10. scr \in Seq(CleanRows) /\ Len(scr) = Len(Cat(upper, new)) + Len(below)
  BY <1>4, <1>9, CatFacts
<1> HIDE DEF scr
<1>11. Len(scr) = t.rows
  BY <1>1, <1>3, <1>4, <1>8, <1>9, <1>10
<1> QED
  BY <1>2, <1>10, <1>11, ScreenShown

LEMMA MoveToOk ==
    ASSUME cfg \in Configs, NEW t, Fine(t), NEW x \in Int, NEW y \in Int, NEW clip \in {0, 1, 2}
    PROVE  Ok(t, MoveTo(t, x, y, clip))
<1> DEFINE up == IF clip # 0 /\ (t.curs.y >= t.mode.t \/ clip = 2) THEN Max({y, t.mode.t}) ELSE y
           in == IF clip # 0 /\ (t.curs.y <= t.mode.b \/ clip = 2) THEN Min({up, t.mode.b})
                 ELSE up
           c == [x |-> Clip(x, 0, t.cols - 1), y |-> Clip(in, 0, t.rows - 1)]
           m == [t.mode EXCEPT !.wnext = FALSE]
<1>1. Fields(t) /\ Region(t, t.mode)
  BY Here DEF Fine, Sound
<1>2. t.mode.t \in Int /\ t.mode.b \in Int
  BY <1>1 DEF Fields
<1>3. up \in Int
  <2>1. Max({y, t.mode.t}) = IF y >= t.mode.t THEN y ELSE t.mode.t
    BY <1>2, MinMax
  <2>2. Max({y, t.mode.t}) \in Int
    BY <1>2, <2>1
  <2> QED
    BY <2>2
<1> HIDE DEF up
<1>8. in \in Int
  <2>1. Min({up, t.mode.b}) = IF up <= t.mode.b THEN up ELSE t.mode.b
    BY <1>2, <1>3, MinMax
  <2>2. Min({up, t.mode.b}) \in Int
    BY <1>2, <1>3, <2>1
  <2> QED
    BY <1>3, <2>2
<1> HIDE DEF in
<1>4. Clip(x, 0, t.cols - 1) \in 0 .. t.cols - 1 /\ Clip(in, 0, t.rows - 1) \in 0 .. t.rows - 1
  <2>1. /\ 0 \in Int /\ t.cols - 1 \in Int /\ t.rows - 1 \in Int
        /\ 0 <= t.cols - 1 /\ 0 <= t.rows - 1
    BY <1>1 DEF Fields
  <2> DEFINE right == t.cols - 1
             bottom == t.rows - 1
  <2>2. right \in Int /\ bottom \in Int /\ 0 <= right /\ 0 <= bottom
    BY <2>1
  <2> HIDE DEF right, bottom
  <2>3. Clip(x, 0, right) \in 0 .. right
    BY <2>2, ClipFacts
  <2>4. Clip(in, 0, bottom) \in 0 .. bottom
    BY <1>8, <2>2, ClipFacts
  <2> QED
    BY <2>3, <2>4 DEF right, bottom
<1>5. c \in Points /\ Fits(t, c)
  BY <1>1, <1>4, SMTT(40) DEF Points, Fits, Fields
<1>6. m \in ModeStates /\ Region(t, m)
  BY <1>1 DEF Fields, ModeStates, Region
<1>7. MoveTo(t, x, y, clip) = [t EXCEPT !.curs = c, !.mode = m]
  BY Zenon DEF MoveTo, up, in
<1> HIDE DEF c, m
<1>9. Ok(t, [t EXCEPT !.curs = c, !.mode = m])
  BY <1>5, <1>6, CursorShown
<1> QED
  BY <1>7, <1>9, Zenon

LEMMA SaveOk ==
    ASSUME NEW t, Fine(t)
    PROVE  Ok(t, Save(t))
<1> DEFINE s == [curs |-> t.curs, wnext |-> t.mode.wnext]
           u == Save(t)
<1>1. Fields(t)
  BY Here DEF Fine
<1>2. s \in Saves /\ s.curs.y >= 0
  BY <1>1 DEF Fields, Saves, SavedPoints, Points
<1>3. u = [t EXCEPT !.save = s]
  BY DEF Save
<1> HIDE DEF u, s
<1>4. /\ u \in Terminals /\ u.screen = t.screen
      /\ u.rows = t.rows /\ u.cols = t.cols /\ u.alt_screen = t.alt_screen
      /\ u.scrollback = t.scrollback /\ u.tempsblines = t.tempsblines
      /\ u.alt_sblines = t.alt_sblines /\ u.disptop = t.disptop
      /\ u.alt_which = t.alt_which /\ u.curs = t.curs /\ u.alt_curs = t.alt_curs
      /\ u.save = s /\ u.alt_save = t.alt_save /\ u.mode = t.mode
      /\ u.alt_mode = t.alt_mode
  BY <1>1, <1>2, <1>3 DEF Fields, Terminals
<1>5. /\ Region(t, t.alt_mode) /\ Fits(t, t.curs) /\ Region(t, t.mode)
      /\ Len(t.screen) = t.rows
  BY DEF Fine, Sound
<1>6. Ok(t, u)
  BY <1>2, <1>4, <1>5, Shown
<1> QED
  BY <1>6 DEF u

LEMMA RestoreOk ==
    ASSUME NEW t, Fine(t)
    PROVE  Ok(t, Restore(t))
<1> DEFINE c == [x |-> Min({t.save.curs.x, t.cols - 1}), y |-> Min({t.save.curs.y, t.rows - 1})]
           m == [t.mode EXCEPT !.wnext = t.save.wnext /\ c.x = t.cols - 1]
<1>1. Fields(t) /\ Region(t, t.mode) /\ t.save.curs.y >= 0
  BY Here DEF Fine, Sound
<1>2. t.save.curs.x \in Nat /\ t.save.curs.y \in Nat /\ t.save.wnext \in BOOLEAN
  BY <1>1 DEF Fields, Saves, SavedPoints
<1>3. /\ t.cols - 1 \in Nat /\ t.rows - 1 \in Nat
      /\ Min({t.save.curs.x, t.cols - 1})
            = IF t.save.curs.x <= t.cols - 1 THEN t.save.curs.x ELSE t.cols - 1
      /\ Min({t.save.curs.y, t.rows - 1})
            = IF t.save.curs.y <= t.rows - 1 THEN t.save.curs.y ELSE t.rows - 1
  <2>1. t.cols - 1 \in Nat /\ t.rows - 1 \in Nat
    BY <1>1, SMTT(40) DEF Fields
  <2> DEFINE right == t.cols - 1
             bottom == t.rows - 1
  <2>2. right \in Int /\ bottom \in Int
    BY <2>1
  <2> HIDE DEF right, bottom
  <2>3. /\ Min({t.save.curs.x, right})
              = IF t.save.curs.x <= right THEN t.save.curs.x ELSE right
        /\ Min({t.save.curs.y, bottom})
              = IF t.save.curs.y <= bottom THEN t.save.curs.y ELSE bottom
    BY <1>2, <2>2, MinMax
  <2> QED
    BY <2>1, <2>3 DEF right, bottom
<1>4. c \in Points /\ Fits(t, c)
  <2> DEFINE x == Min({t.save.curs.x, t.cols - 1})
             y == Min({t.save.curs.y, t.rows - 1})
  <2>1. x \in 0 .. t.cols - 1 /\ y \in 0 .. t.rows - 1
    BY <1>2, <1>3
  <2> HIDE DEF x, y, c
  <2>0. t.cols \in Nat /\ t.rows \in Nat
    BY <1>1 DEF Fields
  <2>2. x \in Nat /\ y \in Nat /\ x < t.cols /\ y < t.rows
    BY <2>0, <2>1
  <2>3. c.x = x /\ c.y = y /\ c = [x |-> x, y |-> y]
    BY DEF c, x, y
  <2>4. c \in Points
    BY <2>2, <2>3 DEF Points
  <2> QED
    BY <2>2, <2>3, <2>4 DEF Fits
<1>5. Restore(t) = [t EXCEPT !.curs = c, !.mode = m]
  BY Zenon DEF Restore
<1> HIDE DEF c
<1>6. m \in ModeStates /\ Region(t, m)
  <2> DEFINE w == t.save.wnext /\ c.x = t.cols - 1
  <2>1. w \in BOOLEAN /\ m = [t.mode EXCEPT !.wnext = w]
    BY Zenon
  <2> HIDE DEF w, m
  <2> QED
    BY <1>1, <2>1 DEF Fields, ModeStates, Region
<1> HIDE DEF m
<1>7. Ok(t, [t EXCEPT !.curs = c, !.mode = m])
  BY <1>4, <1>6, CursorShown
<1> QED
  BY <1>5, <1>7, Zenon

LEMMA CursorAt ==
    ASSUME NEW t, Fields(t), NEW x \in 0 .. t.cols - 1, NEW y \in 0 .. t.rows - 1
    PROVE  /\ [x |-> x, y |-> y] \in Points /\ Fits(t, [x |-> x, y |-> y])
           /\ [t.curs EXCEPT !.x = x] \in Points /\ Fits(t, [t.curs EXCEPT !.x = x])
           /\ [t.curs EXCEPT !.y = y] \in Points /\ Fits(t, [t.curs EXCEPT !.y = y])
           /\ t.curs.x \in Nat /\ t.curs.y \in Nat
<1>1. /\ t.curs \in Points /\ t.curs.x \in 0 .. t.cols - 1 /\ t.curs.y \in 0 .. t.rows - 1
      /\ t.rows \in Nat /\ t.cols \in Nat
  BY DEF Fields
<1>2. /\ x \in Nat /\ x < t.cols /\ y \in Nat /\ y < t.rows
      /\ t.curs.x \in Nat /\ t.curs.x < t.cols /\ t.curs.y \in Nat /\ t.curs.y < t.rows
  BY <1>1
<1> DEFINE c == t.curs
<1>3. c \in Points /\ c.x \in Nat /\ c.x < t.cols /\ c.y \in Nat /\ c.y < t.rows
  BY <1>1, <1>2
<1> HIDE DEF c
<1>4. [x |-> x, y |-> y] \in Points /\ Fits(t, [x |-> x, y |-> y])
  BY <1>2 DEF Points, Fits
<1>5. [c EXCEPT !.x = x] \in Points /\ Fits(t, [c EXCEPT !.x = x])
  BY <1>2, <1>3 DEF Points, Fits
<1>6. [c EXCEPT !.y = y] \in Points /\ Fits(t, [c EXCEPT !.y = y])
  BY <1>2, <1>3 DEF Points, Fits
<1> QED
  BY <1>2, <1>4, <1>5, <1>6 DEF c

(* The cursor alone is put somewhere, and wnext cleared. *)
LEMMA CursorOk ==
    ASSUME NEW t, Fine(t), NEW c \in Points, Fits(t, c)
    PROVE  /\ Ok(t, [t EXCEPT !.curs = c])
           /\ Ok(t, [t EXCEPT !.curs = c, !.mode.wnext = FALSE])
<1> DEFINE m == [t.mode EXCEPT !.wnext = FALSE]
<1>1. Fields(t) /\ Region(t, t.mode) /\ t.mode \in ModeStates
  BY Here DEF Fine, Sound, Fields
<1>2. m \in ModeStates /\ Region(t, m)
  BY <1>1 DEF Fields, ModeStates, Region
<1>3. [t EXCEPT !.curs = c, !.mode.wnext = FALSE] = [t EXCEPT !.curs = c, !.mode = m]
  BY Zenon
<1>4. [t EXCEPT !.curs = c, !.mode = t.mode] = [t EXCEPT !.curs = c]
  <2>1. t \in Terminals
    BY <1>1 DEF Fields
  <2> QED
    BY <2>1 DEF Terminals
<1> HIDE DEF m
<1>5. Ok(t, [t EXCEPT !.curs = c, !.mode = m])
  BY <1>2, CursorShown
<1>6. Ok(t, [t EXCEPT !.curs = c, !.mode = t.mode])
  BY <1>1, CursorShown
<1> QED
  BY <1>3, <1>4, <1>5, <1>6, Zenon

LEMMA ReturnedToOk ==
    ASSUME NEW t, Fine(t), NEW x \in 0 .. t.cols - 1
    PROVE  Ok(t, ReturnedTo(t, x))
<1> DEFINE c == [t.curs EXCEPT !.x = x]
<1>1. Fields(t)
  BY Here DEF Fine
<1>2. c \in Points /\ Fits(t, c)
  <2>1. 0 \in 0 .. t.rows - 1
    BY <1>1 DEF Fields
  <2> QED
    BY <1>1, <2>1, CursorAt
<1>3. ReturnedTo(t, x) = [t EXCEPT !.curs = c, !.mode.wnext = FALSE]
  BY Zenon DEF ReturnedTo
<1> HIDE DEF c
<1>4. Ok(t, [t EXCEPT !.curs = c, !.mode.wnext = FALSE])
  BY <1>2, CursorOk
<1> QED
  BY <1>3, <1>4, Zenon

LEMMA NextRowOk ==
    ASSUME cfg \in Configs, NEW t, Fine(t)
    PROVE  Ok(t, NextRow(t))
<1>1. Fields(t)
  BY Here DEF Fine
<1>2. CASE t.curs.y = t.mode.b
  <2>1. t.mode.t \in Nat /\ t.mode.b \in Nat /\ t.mode.t <= t.mode.b /\ t.mode.b < t.rows /\ 1 \in Nat
    BY <1>1 DEF Fields
  <2>2. Ok(t, Scroll(t, t.mode.t, t.mode.b, 1, TRUE, FALSE))
    BY <2>1, ScrollOk
  <2> QED
    BY <1>2, <2>2 DEF NextRow
<1>3. CASE t.curs.y # t.mode.b
  <2> DEFINE y == Min({t.curs.y + 1, t.rows - 1})
             c == [t.curs EXCEPT !.y = y]
  <2>1. y \in 0 .. t.rows - 1
    <3> DEFINE a == t.curs.y + 1
               b == t.rows - 1
    <3>1. a \in Nat /\ b \in Nat
      BY <1>1, SMTT(40) DEF Fields
    <3> HIDE DEF a, b
    <3>2. Min({a, b}) = IF a <= b THEN a ELSE b
      BY <3>1, MinMax
    <3>3. Min({a, b}) \in 0 .. b
      BY <3>1, <3>2
    <3> QED
      BY <3>3 DEF a, b
  <2> HIDE DEF y
  <2>2. c \in Points /\ Fits(t, c)
    <3>1. 0 \in 0 .. t.cols - 1
      BY <1>1 DEF Fields
    <3> QED
      BY <1>1, <2>1, <3>1, CursorAt
  <2>3. NextRow(t) = [t EXCEPT !.curs = c]
    BY <1>3, Zenon DEF NextRow, y
  <2> HIDE DEF c
  <2>4. Ok(t, [t EXCEPT !.curs = c])
    BY <2>2, CursorOk
  <2> QED
    BY <2>3, <2>4, Zenon
<1> QED
  BY <1>2, <1>3

LEMMA PreviousRowOk ==
    ASSUME cfg \in Configs, NEW t, Fine(t)
    PROVE  Ok(t, PreviousRow(t))
<1>1. Fields(t)
  BY Here DEF Fine
<1>2. CASE t.curs.y = t.mode.t
  <2>1. t.mode.t \in Nat /\ t.mode.b \in Nat /\ t.mode.t <= t.mode.b /\ t.mode.b < t.rows /\ 1 \in Nat
    BY <1>1 DEF Fields
  <2>2. Ok(t, ScrollDown(t, t.mode.t, t.mode.b, 1))
    BY <2>1, ScrollDownOk
  <2> QED
    BY <1>2, <2>2 DEF PreviousRow
<1>3. CASE t.curs.y # t.mode.t
  <2> DEFINE y == IF t.curs.y > 0 THEN t.curs.y - 1 ELSE t.curs.y
             c == [t.curs EXCEPT !.y = y]
  <2>1. y \in 0 .. t.rows - 1
    <3> DEFINE y0 == t.curs.y
               rows == t.rows
    <3>1. y0 \in 0 .. rows - 1 /\ rows \in Nat
      BY <1>1 DEF Fields
    <3> HIDE DEF y0, rows
    <3>2. (IF y0 > 0 THEN y0 - 1 ELSE y0) \in 0 .. rows - 1
      BY <3>1
    <3> QED
      BY <3>2 DEF y0, rows
  <2> HIDE DEF y
  <2>2. c \in Points /\ Fits(t, c)
    <3>1. 0 \in 0 .. t.cols - 1
      BY <1>1 DEF Fields
    <3> QED
      BY <1>1, <2>1, <3>1, CursorAt
  <2>3. PreviousRow(t) = [t EXCEPT !.curs = c]
    BY <1>3, Zenon DEF PreviousRow, y
  <2> HIDE DEF c
  <2>4. Ok(t, [t EXCEPT !.curs = c])
    BY <2>2, CursorOk
  <2> QED
    BY <2>3, <2>4, Zenon
<1> QED
  BY <1>2, <1>3

(* A screen of which each row is kept or written anew. *)
LEMMA RowsOk ==
    ASSUME NEW s \in Seq(CleanRows), NEW f, f \in [1 .. Len(s) -> CleanRows]
    PROVE  f \in Seq(CleanRows) /\ Len(f) = Len(s)
<1>1. Len(s) \in Nat
  BY LenProperties
<1>2. f \in Seq(CleanRows)
  BY <1>1, SeqDef
<1>3. Len(f) \in Nat /\ DOMAIN f = 1 .. Len(f)
  BY <1>2, LenProperties
<1> DEFINE l == Len(f)
           n == Len(s)
<1>4. l \in Nat /\ n \in Nat /\ 1 .. l = 1 .. n
  BY <1>1, <1>3
<1> HIDE DEF l, n
<1>5. (l \in 1 .. l \/ l = 0) /\ (n \in 1 .. n \/ n = 0)
  BY <1>4
<1>6. l = n
  BY <1>4, <1>5
<1> QED
  BY <1>2, <1>6 DEF l, n

LEMMA ThrownAwayOk ==
    ASSUME cfg \in Configs, NEW t, Sound(t), NEW full \in BOOLEAN,
           ~(full /\ t.alt_which = 0) => Restorable(t)
    PROVE  Ok(t, ThrownAway(t, full))
<1>1. CASE full /\ t.alt_which = 0
  <2> DEFINE u == [t EXCEPT !.tempsblines = 0]
  <2>1. Fields(t)
    BY Here
  <2>2. /\ u \in Terminals /\ u.screen = t.screen
        /\ u.rows = t.rows /\ u.cols = t.cols /\ u.alt_screen = t.alt_screen
        /\ u.scrollback = t.scrollback /\ u.tempsblines = 0
        /\ u.alt_sblines = t.alt_sblines /\ u.disptop = t.disptop
        /\ u.alt_which = t.alt_which /\ u.curs = t.curs /\ u.alt_curs = t.alt_curs
        /\ u.save = t.save /\ u.alt_save = t.alt_save /\ u.mode = t.mode
        /\ u.alt_mode = t.alt_mode
    BY <2>1 DEF Fields, Terminals
  <2>3. ThrownAway(t, full) = u
    BY <1>1 DEF ThrownAway
  <2> HIDE DEF u
  <2>4. Len(t.scrollback) \in Nat
    BY <2>1 DEF Fields
  <2>5. Sound(u)
    BY <2>2, <2>4 DEF Sound, Fits, Region
  <2>6. Restorable(u)
    BY <2>2, <2>4 DEF Restorable
  <2>7. SbLines(u) = SbLines(t)
    BY <2>2 DEF SbLines
  <2>8. Within(t, u)
    BY <2>2, <2>7 DEF Within, Seen
  <2> QED
    BY <2>3, <2>5, <2>6, <2>8 DEF Ok, Fine
<1>2. CASE ~(full /\ t.alt_which = 0)
  <2>1. ThrownAway(t, full) = t
    BY <1>2 DEF ThrownAway
  <2>2. Fine(t)
    BY <1>2 DEF Fine
  <2> QED
    BY <2>1, <2>2, OkStays
<1> QED
  BY <1>1, <1>2

LEMMA EraseLotsOk ==
    ASSUME cfg \in Configs, NEW t, Fine(t), NEW from \in BOOLEAN, NEW to \in BOOLEAN,
           NEW left \in BOOLEAN
    PROVE  Ok(t, EraseLots(t, from, to, left))
<1> DEFINE full == to /\ (from \/ t.curs = Home)
           n == Nonempty(t, t.screen)
           erased == [i \in DOMAIN t.screen |->
            IF \/ i - 1 < t.curs.y /\ ~from
               \/ i - 1 > t.curs.y /\ ~to
               \/ i - 1 = t.curs.y /\ left
                     /\ ~((from \/ t.curs.x = 0) /\ (to \/ t.curs.x = t.cols - 1))
            THEN t.screen[i] ELSE Row(Blank)]
           done == IF full /\ cfg.erase_to_scrollback
                   THEN IF n > 0 THEN Scroll(t, 0, n - 1, n, TRUE, TRUE) ELSE t
                   ELSE [t EXCEPT !.screen = erased]
<1>1. /\ t.screen \in Seq(CleanRows) /\ Len(t.screen) = t.rows /\ t.rows \in Nat
      /\ t.alt_which \in {0, 1} /\ Sound(t) /\ Restorable(t)
  BY Here DEF Fine, Fields
<1>2. EraseLots(t, from, to, left) = ThrownAway(done, full)
  <2> DEFINE off == t.curs.x < 0 \/ (t.curs.y < 0 /\ (t.curs.x # 0 \/ ~from))
  <2>1. ~off
    BY Here DEF Fine, Fields
  <2>2. EraseLots(t, from, to, left)
          = IF off /\ ~(from /\ to) THEN Failed(t) ELSE ThrownAway(done, full)
    BY Zenon DEF EraseLots
  <2> HIDE DEF off, done, full
  <2> QED
    BY <2>1, <2>2
<1>3. full \in BOOLEAN
  OBVIOUS
<1>4. Ok(t, [t EXCEPT !.screen = erased])
  <2>1. /\ DOMAIN t.screen = 1 .. Len(t.screen) /\ Len(t.screen) \in Nat
        /\ \A i \in 1 .. Len(t.screen) : t.screen[i] \in CleanRows
    BY <1>1, LenProperties, ElementOfSeq
  <2>2. Row(Blank) \in CleanRows
    BY DEF Row, Blank, CleanRows
  <2>3. erased \in [1 .. Len(t.screen) -> CleanRows]
    BY <2>1, <2>2
  <2> HIDE DEF erased
  <2>4. erased \in Seq(CleanRows) /\ Len(erased) = t.rows
    BY <1>1, <2>3, RowsOk
  <2> QED
    BY <2>4, ScreenShown
<1>5. n \in 0 .. t.rows
  BY <1>1, NonemptyType
<1>6. ASSUME full, cfg.erase_to_scrollback, n > 0
      PROVE  Sound(done) /\ Within(t, done) /\ (t.alt_which = 1 => Restorable(done))
  <2>1. done = Scroll(t, 0, n - 1, n, TRUE, TRUE)
    BY <1>6
  <2> HIDE DEF n, done
  <2>2. /\ 0 \in Nat /\ n - 1 \in Nat /\ 0 <= n - 1 /\ n - 1 < t.rows /\ n \in Nat
        /\ TRUE \in BOOLEAN
    BY <1>1, <1>5, <1>6
  <2> DEFINE b == n - 1
  <2>3. b \in Nat /\ 0 <= b /\ b < t.rows /\ n \in Nat
    BY <2>2
  <2>4. done = Scroll(t, 0, b, n, TRUE, TRUE)
    BY <2>1
  <2> HIDE DEF b
  <2>5. /\ Sound(Scroll(t, 0, b, n, TRUE, TRUE)) /\ Within(t, Scroll(t, 0, b, n, TRUE, TRUE))
        /\ Restorable(t) /\ (~TRUE \/ t.alt_which = 1)
              => Restorable(Scroll(t, 0, b, n, TRUE, TRUE))
    BY <1>1, <2>3, ScrollFacts
  <2> QED
    BY <1>1, <2>4, <2>5
<1>7. ASSUME ~(full /\ cfg.erase_to_scrollback /\ n > 0) PROVE Ok(t, done)
  <2>1. done = t \/ done = [t EXCEPT !.screen = erased]
    BY <1>7, CfgFacts
  <2>2. Ok(t, t)
    BY OkStays
  <2> QED
    BY <1>4, <2>1, <2>2
<1>8. /\ Sound(done) /\ Within(t, done)
      /\ ~(full /\ done.alt_which = 0) => Restorable(done)
  <2>1. CASE full /\ cfg.erase_to_scrollback /\ n > 0
    <3>1. Sound(done) /\ Within(t, done) /\ (t.alt_which = 1 => Restorable(done))
      BY <1>6, <2>1
    <3>2. done.alt_which = t.alt_which
      BY <3>1 DEF Within
    <3> HIDE DEF full, done
    <3> QED
      BY <1>1, <2>1, <3>1, <3>2
  <2>2. CASE ~(full /\ cfg.erase_to_scrollback /\ n > 0)
    <3>1. Ok(t, done)
      BY <1>7, <2>2
    <3> HIDE DEF full, done
    <3> QED
      BY <3>1 DEF Ok, Fine
  <2> QED
    BY <2>1, <2>2
<1> HIDE DEF done, full
<1>9. Ok(done, ThrownAway(done, full))
  BY <1>3, <1>8, ThrownAwayOk
<1>10. Within(t, ThrownAway(done, full)) /\ Fine(ThrownAway(done, full))
  BY <1>8, <1>9 DEF Ok, Within
<1> QED
  BY <1>2, <1>10 DEF Ok

LEMMA PutRowOk ==
    ASSUME cfg \in Configs, NEW t, Fine(t), NEW x \in Nat, NEW row \in CleanRows
    PROVE  /\ PutRow(t, x, row) = [t EXCEPT !.screen = [t.screen EXCEPT ![t.curs.y + 1] = row]]
           /\ Ok(t, PutRow(t, x, row))
<1> DEFINE s == [t.screen EXCEPT ![t.curs.y + 1] = row]
<1>1. Fields(t)
  BY Here DEF Fine
<1>2. t.screen \in Seq(CleanRows) /\ Len(t.screen) = t.rows /\ t.curs.y + 1 \in 1 .. Len(t.screen)
  BY <1>1 DEF Fields
<1>3. s \in Seq(CleanRows) /\ Len(s) = t.rows
  BY <1>2, ExceptSeq
<1>4. PutRow(t, x, row) = [t EXCEPT !.screen = s]
  <2>1. x >= 0 /\ t.curs.y >= 0
    BY <1>1 DEF Fields
  <2> QED
    BY <2>1, Zenon DEF PutRow
<1> HIDE DEF s
<1>5. Ok(t, [t EXCEPT !.screen = s])
  BY <1>3, ScreenShown
<1> QED
  BY <1>4, <1>5 DEF s

LEMMA WrittenOk ==
    ASSUME cfg \in Configs, NEW t, Fine(t), NEW text \in Nat, NEW width \in {1, 2}
    PROVE  Ok(t, Written(t, text, width))
<1> DEFINE wrapped == IF t.mode.wnext /\ t.mode.wrap THEN ReturnedTo(NextRow(t), 0) ELSE t
           at == IF width = 2 /\ wrapped.curs.x = t.cols - 1
                 THEN [NextRow(wrapped) EXCEPT !.curs.x = 0] ELSE wrapped
           end == at.curs.x + width = t.cols
<1>1. Ok(t, wrapped)
  <2>1. Ok(t, NextRow(t)) /\ Fine(NextRow(t))
    BY NextRowOk DEF Ok
  <2>2. 0 \in 0 .. NextRow(t).cols - 1
    BY <2>1, Here DEF Fine, Fields
  <2>3. Ok(NextRow(t), ReturnedTo(NextRow(t), 0))
    BY <2>1, <2>2, ReturnedToOk
  <2>4. Ok(t, ReturnedTo(NextRow(t), 0)) /\ Ok(t, t)
    BY <2>1, <2>3, OkChains, OkStays
  <2> QED
    BY <2>4
<1> HIDE DEF wrapped
<1>2. Fine(wrapped) /\ wrapped.cols = t.cols /\ wrapped.rows = t.rows
  BY <1>1 DEF Ok, Within
<1>3. Ok(wrapped, at)
  <2> DEFINE next == NextRow(wrapped)
             c == [next.curs EXCEPT !.x = 0]
  <2>1. Ok(wrapped, next) /\ Fine(next) /\ Fields(next)
    BY <1>2, NextRowOk, Here DEF Ok, Fine
  <2>2. c \in Points /\ Fits(next, c)
    <3>1. 0 \in 0 .. next.cols - 1 /\ 0 \in 0 .. next.rows - 1
      BY <2>1 DEF Fields
    <3> HIDE DEF next
    <3> QED
      BY <2>1, <3>1, CursorAt
  <2>3. [next EXCEPT !.curs.x = 0] = [next EXCEPT !.curs = c]
    BY Zenon
  <2>4. at = [next EXCEPT !.curs.x = 0] \/ at = wrapped
    OBVIOUS
  <2> HIDE DEF c, next, at
  <2>5. Ok(next, [next EXCEPT !.curs = c])
    BY <2>1, <2>2, CursorOk
  <2>6. Ok(wrapped, [next EXCEPT !.curs.x = 0])
    BY <2>1, <2>3, <2>5, OkChains
  <2>7. Ok(wrapped, wrapped)
    BY <1>2, OkStays
  <2> QED
    BY <2>4, <2>6, <2>7
<1>4. Fine(at) /\ at.cols = t.cols /\ at.rows = t.rows /\ Fields(at)
  BY <1>2, <1>3, Here DEF Ok, Within, Fine
<1>5. width = 2 => at.curs.x # t.cols - 1
  <2>1. CASE width = 2 /\ wrapped.curs.x = t.cols - 1
    <3>1. Ok(wrapped, NextRow(wrapped)) /\ Fine(NextRow(wrapped))
      BY <1>2, NextRowOk DEF Ok
    <3>2. NextRow(wrapped) \in Terminals
      BY <3>1 DEF Fine, Sound
    <3>3. at.curs.x = 0
      BY <2>1, <3>2 DEF Terminals, Points
    <3> QED
      BY <1>4, <3>3 DEF Fields
  <2> QED
    BY <2>1
<1>6. Ok(t, at)
  BY <1>1, <1>3, OkChains
<1> HIDE DEF at
<1> DEFINE u == PutRow(at, at.curs.x, Row(text))
           x == IF end THEN t.cols - 1 ELSE at.curs.x + width
           c == [at.curs EXCEPT !.x = x]
           m == [at.mode EXCEPT !.wnext = at.mode.wnext \/ end]
<1>7. at.curs.x \in 0 .. t.cols - 1 /\ at.curs.y \in 0 .. t.rows - 1 /\ t.cols \in Nat
        /\ t.rows \in Nat /\ t.cols > 1
  BY <1>4 DEF Fields
<1>8. x \in 0 .. t.cols - 1
  BY <1>5, <1>7
<1> DEFINE s == [at.screen EXCEPT ![at.curs.y + 1] = Row(text)]
<1>9. at.curs.x \in Nat /\ Row(text) \in CleanRows
  BY <1>7, RowTypes
<1>10. u = [at EXCEPT !.screen = s] /\ Ok(at, u)
  <2> DEFINE column == at.curs.x
             row == Row(text)
  <2>1. column \in Nat /\ row \in CleanRows /\ Fine(at)
    BY <1>4, <1>9
  <2> HIDE DEF column, row
  <2>2. /\ PutRow(at, column, row)
              = [at EXCEPT !.screen = [at.screen EXCEPT ![at.curs.y + 1] = row]]
        /\ Ok(at, PutRow(at, column, row))
    BY <2>1, PutRowOk, Zenon
  <2> QED
    BY <2>2, Zenon DEF column, row
<1>11. /\ Fine(u) /\ u.curs = at.curs /\ u.mode = at.mode /\ u.cols = t.cols /\ u.rows = t.rows
       /\ Fields(u)
  <2> HIDE DEF u, s
  <2>1. Fine(u) /\ Fields(u)
    BY <1>10, Here DEF Ok, Fine
  <2>2. at \in Terminals
    BY <1>4 DEF Fields
  <2> QED
    BY <1>4, <1>10, <2>1, <2>2 DEF Terminals
<1>12. Written(t, text, width) = [u EXCEPT !.curs = c, !.mode = m]
  <2>1. ~(t.curs.y < 0)
    BY Here DEF Fine, Fields
  <2>2. Written(t, text, width)
          = [u EXCEPT !.curs.x = IF end THEN t.cols - 1 ELSE @ + width,
                      !.mode.wnext = @ \/ end]
    BY <2>1, Zenon DEF Written, at, wrapped
  <2> HIDE DEF u
  <2> QED
    BY <1>11, <2>2, Zenon
<1> HIDE DEF x, s
<1>13. c \in Points /\ Fits(u, c)
  <2>1. x \in 0 .. u.cols - 1 /\ 0 \in 0 .. u.rows - 1 /\ c = [u.curs EXCEPT !.x = x]
    BY <1>7, <1>8, <1>11
  <2> HIDE DEF c, u
  <2> QED
    BY <1>11, <2>1, CursorAt
<1>14. m \in ModeStates /\ Region(u, m)
  <2> DEFINE w == at.mode.wnext \/ end
  <2>1. w \in BOOLEAN /\ m = [u.mode EXCEPT !.wnext = w]
    BY <1>11, Zenon
  <2>2. u.mode \in ModeStates /\ Region(u, u.mode)
    BY <1>11 DEF Fine, Sound, Fields
  <2> HIDE DEF w, m, u
  <2> QED
    BY <2>1, <2>2 DEF ModeStates, Region
<1> HIDE DEF c, m
<1>15. Ok(u, [u EXCEPT !.curs = c, !.mode = m])
  <2> HIDE DEF u
  <2> QED
    BY <1>11, <1>13, <1>14, CursorShown
<1>16. Ok(t, [u EXCEPT !.curs = c, !.mode = m])
  <2> HIDE DEF u
  <2> QED
    BY <1>6, <1>10, <1>15, OkChains DEF u
<1> QED
  BY <1>12, <1>16, Zenon

-------------------------------------------------------------------------------
(* Switching screens and resetting.                                         *)

LEMMA SwapScreenOk ==
    ASSUME cfg \in Configs, NEW t, Fine(t), NEW which \in {0, 1}, NEW reset \in BOOLEAN,
           NEW keep \in BOOLEAN
    PROVE  LET u == SwapScreen(t, which, reset, keep)
           IN  /\ Fine(u) /\ u.rows = t.rows /\ u.cols = t.cols /\ u.alt_which = which
               /\ which = t.alt_which => Ok(t, u)
               /\ ~reset => u.disptop = t.disptop
<1> DEFINE clear == reset /\ which = 1
           cross == [t EXCEPT !.alt_which = which,
                           !.screen = t.alt_screen,
                           !.alt_screen = t.screen,
                           !.alt_sblines = Nonempty(t, t.screen),
                           !.curs = IF clear \/ keep THEN t.curs ELSE t.alt_curs,
                           !.alt_curs = t.curs,
                           !.mode = IF clear THEN t.mode ELSE t.alt_mode,
                           !.alt_mode = t.mode,
                           !.save = IF clear \/ keep THEN t.save ELSE t.alt_save,
                           !.alt_save = t.save]
           swapped == IF which = t.alt_which THEN t ELSE cross
           u == SwapScreen(t, which, reset, keep)
<1>1. Fields(t)
  BY Here DEF Fine
<1>2. u = IF clear THEN EraseLots(swapped, TRUE, TRUE, FALSE) ELSE swapped
  BY Zenon DEF SwapScreen
<1>3. clear \in BOOLEAN /\ (~reset => ~clear)
  OBVIOUS
<1> HIDE DEF clear
<1>4. Nonempty(t, t.screen) \in Nat
  BY <1>1, NonemptyType DEF Fields
<1>5. /\ cross \in Terminals /\ cross.alt_which = which
      /\ cross.screen = t.alt_screen /\ cross.alt_screen = t.screen
      /\ cross.rows = t.rows /\ cross.cols = t.cols
      /\ cross.scrollback = t.scrollback /\ cross.tempsblines = t.tempsblines
      /\ cross.disptop = t.disptop
      /\ cross.curs \in {t.curs, t.alt_curs} /\ cross.alt_curs = t.curs
      /\ cross.mode \in {t.mode, t.alt_mode} /\ cross.alt_mode = t.mode
      /\ cross.save \in {t.save, t.alt_save} /\ cross.alt_save = t.save
  <2> DEFINE n == Nonempty(t, t.screen)
             c == IF clear \/ keep THEN t.curs ELSE t.alt_curs
             m == IF clear THEN t.mode ELSE t.alt_mode
             s == IF clear \/ keep THEN t.save ELSE t.alt_save
  <2>1. /\ n \in Nat
        /\ c \in {t.curs, t.alt_curs} /\ c \in Points
        /\ m \in {t.mode, t.alt_mode} /\ m \in ModeStates
        /\ s \in {t.save, t.alt_save} /\ s \in Saves
    BY <1>1, <1>4 DEF Fields
  <2>2. cross = [t EXCEPT !.alt_which = which, !.screen = t.alt_screen,
                          !.alt_screen = t.screen, !.alt_sblines = n, !.curs = c,
                          !.alt_curs = t.curs, !.mode = m, !.alt_mode = t.mode,
                          !.save = s, !.alt_save = t.save]
    BY Zenon
  <2> HIDE DEF n, c, m, s, cross
  <2> QED
    BY <1>1, <2>1, <2>2 DEF Fields, Terminals
<1> HIDE DEF cross
<1>6. Fine(cross)
  <2>1. Sound(t) /\ Restorable(t)
    BY DEF Fine
  <2>2. /\ cross.rows # 1
        /\ Len(cross.screen) = cross.rows /\ Len(cross.alt_screen) = cross.rows
        /\ Fits(cross, cross.curs) /\ Fits(cross, cross.alt_curs)
        /\ Region(cross, cross.mode) /\ Region(cross, cross.alt_mode)
        /\ cross.save.curs.y >= 0 /\ cross.alt_save.curs.y >= 0
    BY <1>5, <2>1 DEF Sound, Fits, Region
  <2>3. Sound(cross)
    BY <1>5, <2>1, <2>2 DEF Sound
  <2>4. Restorable(cross)
    BY <1>5, <2>1 DEF Restorable
  <2> QED
    BY <2>3, <2>4 DEF Fine
<1>7. /\ Fine(swapped) /\ swapped.rows = t.rows /\ swapped.cols = t.cols
      /\ swapped.alt_which = which /\ swapped.disptop = t.disptop
      /\ which = t.alt_which => Ok(t, swapped)
  BY <1>5, <1>6, OkStays
<1> HIDE DEF swapped, u
<1>8. Ok(swapped, EraseLots(swapped, TRUE, TRUE, FALSE)) /\ Ok(swapped, swapped)
  BY <1>7, EraseLotsOk, OkStays
<1>9. Ok(swapped, u) /\ (~reset => u = swapped)
  BY <1>2, <1>3, <1>8
<1>10. /\ Fine(u) /\ u.rows = t.rows /\ u.cols = t.cols /\ u.alt_which = which
       /\ which = t.alt_which => Ok(t, u)
       /\ ~reset => u.disptop = t.disptop
  <2>1. Fine(u) /\ u.rows = t.rows /\ u.cols = t.cols /\ u.alt_which = which
    BY <1>7, <1>9 DEF Ok, Within
  <2>2. which = t.alt_which => Ok(t, u)
    BY <1>7, <1>9, OkChains
  <2>3. ~reset => u.disptop = t.disptop
    BY <1>7, <1>9
  <2> QED
    BY <2>1, <2>2, <2>3
<1> QED
  BY <1>10 DEF u

(* To the bottom of the scrollback. *)
LEMMA BottomOk ==
    ASSUME cfg \in Configs, NEW t, Fine(t)
    PROVE  LET u == [t EXCEPT !.disptop = 0]
           IN  /\ Fine(u) /\ Seen(u)
               /\ u.rows = t.rows /\ u.cols = t.cols /\ u.alt_which = t.alt_which
               /\ u.alt_screen = t.alt_screen /\ u.alt_curs = t.alt_curs
               /\ u.scrollback = t.scrollback
<1> DEFINE u == [t EXCEPT !.disptop = 0]
<1>1. Fields(t)
  BY Here DEF Fine
<1>2. /\ u \in Terminals /\ u.screen = t.screen
      /\ u.rows = t.rows /\ u.cols = t.cols /\ u.alt_screen = t.alt_screen
      /\ u.scrollback = t.scrollback /\ u.tempsblines = t.tempsblines
      /\ u.alt_sblines = t.alt_sblines /\ u.disptop = 0
      /\ u.alt_which = t.alt_which /\ u.curs = t.curs /\ u.alt_curs = t.alt_curs
      /\ u.save = t.save /\ u.alt_save = t.alt_save /\ u.mode = t.mode
      /\ u.alt_mode = t.alt_mode
  <2> DEFINE bottom == 0
  <2>1. bottom \in Int /\ bottom = 0
    OBVIOUS
  <2>2. u = [t EXCEPT !.disptop = bottom] /\ t \in Terminals
    BY <1>1 DEF Fields
  <2> HIDE DEF bottom, u
  <2> QED
    BY <2>1, <2>2 DEF Terminals
<1> HIDE DEF u
<1>3. Sound(u)
  BY <1>2 DEF Fine, Sound, Fits, Region
<1>4. Restorable(u)
  BY <1>2 DEF Fine, Restorable
<1>5. SbLines(u) \in Nat
  BY <1>2, SbLinesNat
<1>6. Seen(u)
  BY <1>2, <1>5 DEF Seen
<1>7. /\ Fine(u) /\ Seen(u)
      /\ u.rows = t.rows /\ u.cols = t.cols /\ u.alt_which = t.alt_which
      /\ u.alt_screen = t.alt_screen /\ u.alt_curs = t.alt_curs
      /\ u.scrollback = t.scrollback
  BY <1>2, <1>3, <1>4, <1>6 DEF Fine
<1> QED
  BY <1>7 DEF u

(* What every operation keeps to. *)
Steps(t, u) ==
    /\ Fine(u) /\ Seen(u)
    /\ t.alt_which = 1 /\ u.alt_which = 1 /\ u.rows = t.rows /\ u.cols = t.cols =>
          /\ u.alt_screen = t.alt_screen
          /\ u.alt_curs = t.alt_curs
          /\ u.scrollback \in {t.scrollback, <<>>}
    /\ u.rows # t.rows =>
          /\ IsSuffix(UpToCursor(u), UpToCursor(t))
          /\ \/ Len(UpToCursor(u)) = Len(UpToCursor(t))
             \/ Len(u.scrollback) = cfg.savelines

LEMMA OkSteps ==
    ASSUME NEW t, Seen(t), NEW u, Ok(t, u)
    PROVE  Steps(t, u)
BY DEF Ok, Within, Steps

LEMMA OkBottomSteps ==
    ASSUME cfg \in Configs, NEW t, NEW u, Ok(t, u)
    PROVE  Steps(t, [u EXCEPT !.disptop = 0])
<1> DEFINE v == [u EXCEPT !.disptop = 0]
<1>1. Fine(u)
  BY DEF Ok
<1>2. /\ Fine(v) /\ Seen(v)
      /\ v.rows = u.rows /\ v.cols = u.cols /\ v.alt_which = u.alt_which
      /\ v.alt_screen = u.alt_screen /\ v.alt_curs = u.alt_curs
      /\ v.scrollback = u.scrollback
  BY <1>1, BottomOk
<1> HIDE DEF v
<1>3. Steps(t, v)
  BY <1>2 DEF Ok, Within, Steps
<1> QED
  BY <1>3 DEF v

(* From or to the other screen. *)
LEMMA OtherSteps ==
    ASSUME cfg \in Configs, NEW t, NEW u, Fine(u), u.rows = t.rows,
           t.alt_which # 1 \/ u.alt_which # 1
    PROVE  Steps(t, [u EXCEPT !.disptop = 0])
<1> DEFINE v == [u EXCEPT !.disptop = 0]
<1>1. Fine(v) /\ Seen(v) /\ v.alt_which = u.alt_which /\ v.rows = u.rows
  BY BottomOk
<1> HIDE DEF v
<1>2. Steps(t, v)
  BY <1>1 DEF Steps
<1> QED
  BY <1>2 DEF v

LEMMA PowerOnOk ==
    ASSUME cfg \in Configs, NEW t, Fine(t)
    PROVE  Fine(PowerOn(t)) /\ PowerOn(t).alt_which = 0 /\ PowerOn(t).rows = t.rows
<1> DEFINE p == PowerOnMode(t.rows)
           reset == [t EXCEPT !.alt_curs = Home, !.save = NoSave, !.alt_save = NoSave,
                           !.mode = p, !.alt_mode = p, !.alt_which = 0]
           first == SwapScreen(reset, 1, FALSE, FALSE)
           alternate == EraseLots(first, TRUE, TRUE, FALSE)
           second == SwapScreen(alternate, 0, FALSE, FALSE)
           main == EraseLots(second, TRUE, TRUE, FALSE)
<1>1. Fields(t)
  BY Here DEF Fine
<1>2. p \in ModeStates /\ p.t = 0 /\ p.b = t.rows - 1
  <2>1. t.rows - 1 \in Nat /\ cfg.dec_om \in BOOLEAN
    BY <1>1, CfgFacts DEF Fields
  <2> QED
    BY <2>1 DEF PowerOnMode, ModeStates
<1>3. Home \in Points /\ Home.x = 0 /\ Home.y = 0
  BY DEF Home, Points
<1>4. NoSave \in Saves /\ NoSave.curs.y = 0
  BY DEF NoSave, Home, Saves, SavedPoints
<1> HIDE DEF p
<1>5. /\ reset \in Terminals /\ reset.screen = t.screen
      /\ reset.rows = t.rows /\ reset.cols = t.cols /\ reset.alt_screen = t.alt_screen
      /\ reset.scrollback = t.scrollback /\ reset.tempsblines = t.tempsblines
      /\ reset.alt_which = 0 /\ reset.curs = t.curs /\ reset.alt_curs = Home
      /\ reset.save = NoSave /\ reset.alt_save = NoSave /\ reset.mode = p
      /\ reset.alt_mode = p
  BY <1>1, <1>2, <1>3, <1>4 DEF Fields, Terminals
<1> HIDE DEF reset
<1>6. Fine(reset)
  <2>1. Sound(t) /\ Restorable(t)
    BY DEF Fine
  <2>2. Region(reset, p) /\ Fits(reset, Home)
    BY <1>1, <1>2, <1>3, <1>5 DEF Region, Fits, Fields
  <2>3. Sound(reset)
    BY <1>4, <1>5, <2>1, <2>2 DEF Sound, Fits
  <2>4. Restorable(reset)
    BY <1>5, <2>1 DEF Restorable
  <2> QED
    BY <2>3, <2>4 DEF Fine
<1>7. Fine(first) /\ first.rows = t.rows
  BY <1>5, <1>6, SwapScreenOk
<1> HIDE DEF first
<1>8. Fine(alternate) /\ alternate.rows = t.rows
  BY <1>7, EraseLotsOk DEF Ok, Within
<1> HIDE DEF alternate
<1>9. Fine(second) /\ second.alt_which = 0 /\ second.rows = t.rows
  BY <1>8, SwapScreenOk
<1> HIDE DEF second
<1>10. Fine(main) /\ main.alt_which = 0 /\ main.rows = t.rows
  BY <1>9, EraseLotsOk DEF Ok, Within
<1>11. PowerOn(t) = [main EXCEPT !.curs = Home]
  BY Zenon DEF PowerOn, p, reset, first, alternate, second
<1> HIDE DEF main
<1>12. Home \in Points /\ Fits(main, Home)
  BY <1>3, <1>10, Here DEF Fine, Fields, Fits
<1>13. Ok(main, [main EXCEPT !.curs = Home])
  BY <1>10, <1>12, CursorOk
<1>14. Ok(main, PowerOn(t))
  BY <1>11, <1>13, Zenon
<1> QED
  BY <1>10, <1>14 DEF Ok, Within

LEMMA SwapSteps ==
    ASSUME cfg \in Configs, NEW t, NEW t1, Ok(t, t1), NEW which \in {0, 1},
           NEW reset \in BOOLEAN, NEW keep \in BOOLEAN, NEW u,
           Ok(SwapScreen(t1, which, reset, keep), u)
    PROVE  Steps(t, [u EXCEPT !.disptop = 0])
<1> DEFINE s == SwapScreen(t1, which, reset, keep)
<1>1. Fine(t1) /\ t1.alt_which = t.alt_which /\ t1.rows = t.rows
  BY DEF Ok, Within
<1>2. Fine(s) /\ s.alt_which = which /\ s.rows = t1.rows /\ (which = t1.alt_which => Ok(t1, s))
  BY <1>1, SwapScreenOk
<1>3. Ok(s, u)
  OBVIOUS
<1> HIDE DEF s
<1>4. Fine(u) /\ u.alt_which = which /\ u.rows = t.rows
  BY <1>1, <1>2, <1>3 DEF Ok, Within
<1>5. CASE which = t.alt_which
  <2>1. Ok(t1, s)
    BY <1>1, <1>2, <1>5
  <2>2. Ok(t, s)
    BY <2>1, OkChains
  <2>3. Ok(t, u)
    BY <1>3, <2>2, OkChains
  <2> QED
    BY <2>3, OkBottomSteps
<1>6. CASE which # t.alt_which
  <2>1. t.alt_which # 1 \/ u.alt_which # 1
    BY <1>4, <1>6
  <2> QED
    BY <1>4, <2>1, OtherSteps
<1> QED
  BY <1>5, <1>6

(* Margins reset on both screens. *)
LEMMA MarginsOk ==
    ASSUME NEW t, Fine(t)
    PROVE  Ok(t, [t EXCEPT !.mode.t = 0, !.mode.b = t.rows - 1,
                           !.alt_mode.t = 0, !.alt_mode.b = t.rows - 1])
<1> DEFINE b == t.rows - 1
           m == [t.mode EXCEPT !.t = 0, !.b = b]
           n == [t.alt_mode EXCEPT !.t = 0, !.b = b]
           u == [t EXCEPT !.mode = m, !.alt_mode = n]
<1>1. Fields(t)
  BY Here DEF Fine
<1>2. b \in Nat /\ 0 < b /\ b < t.rows
  BY <1>1, SMTT(40) DEF Fields
<1>3. u = [t EXCEPT !.mode.t = 0, !.mode.b = t.rows - 1,
                    !.alt_mode.t = 0, !.alt_mode.b = t.rows - 1]
  BY <1>1 DEF Fields, Terminals
<1> HIDE DEF b
<1>4. m \in ModeStates /\ m.t = 0 /\ m.b = b /\ n \in ModeStates /\ n.t = 0 /\ n.b = b
  BY <1>1, <1>2 DEF Fields, ModeStates
<1> HIDE DEF m, n
<1>5. /\ u \in Terminals /\ u.screen = t.screen
      /\ u.rows = t.rows /\ u.cols = t.cols /\ u.alt_screen = t.alt_screen
      /\ u.scrollback = t.scrollback /\ u.tempsblines = t.tempsblines
      /\ u.alt_sblines = t.alt_sblines /\ u.disptop = t.disptop
      /\ u.alt_which = t.alt_which /\ u.curs = t.curs /\ u.alt_curs = t.alt_curs
      /\ u.save = t.save /\ u.alt_save = t.alt_save /\ u.mode = m
      /\ u.alt_mode = n
  BY <1>1, <1>4 DEF Fields, Terminals
<1> HIDE DEF u
<1>6. Region(t, u.alt_mode) /\ Region(t, u.mode)
  BY <1>2, <1>4, <1>5 DEF Region
<1>7. Fits(t, t.curs) /\ t.save.curs.y >= 0 /\ Len(t.screen) = t.rows
  BY DEF Fine, Sound
<1>8. Ok(t, u)
  BY <1>5, <1>6, <1>7, Shown
<1> QED
  BY <1>3, <1>8

(* A mode changes, but not the margins. *)
LEMMA ModeOk ==
    ASSUME NEW t, Fine(t), NEW m \in ModeStates, m.t = t.mode.t, m.b = t.mode.b
    PROVE  Ok(t, [t EXCEPT !.mode = m])
<1>1. Fields(t) /\ Region(t, t.mode) /\ Fits(t, t.curs)
  BY Here DEF Fine, Sound
<1>2. t \in Terminals /\ t.curs \in Points /\ Region(t, m)
  BY <1>1 DEF Fields, Region
<1>3. [t EXCEPT !.curs = t.curs, !.mode = m] = [t EXCEPT !.mode = m]
  BY <1>2 DEF Terminals
<1>4. Ok(t, [t EXCEPT !.curs = t.curs, !.mode = m])
  BY <1>1, <1>2, CursorShown
<1> QED
  BY <1>3, <1>4, Zenon

LEMMA SwapFine ==
    ASSUME cfg \in Configs, NEW t, Fine(t), NEW which \in {0, 1}, NEW reset \in BOOLEAN,
           NEW keep \in BOOLEAN
    PROVE  Fine(SwapScreen(t, which, reset, keep))
BY SwapScreenOk

LEMMA SwapAloneSteps ==
    ASSUME cfg \in Configs, NEW t, Fine(t), NEW which \in {0, 1}, NEW reset \in BOOLEAN,
           NEW keep \in BOOLEAN
    PROVE  Steps(t, [SwapScreen(t, which, reset, keep) EXCEPT !.disptop = 0])
<1> DEFINE s == SwapScreen(t, which, reset, keep)
<1>1. Fine(s)
  BY SwapFine
<1>2. Ok(s, s)
  BY <1>1, OkStays, Zenon
<1>3. Ok(t, t)
  BY OkStays
<1> QED
  BY <1>2, <1>3, SwapSteps, Zenon

(* Mode 3 changes the number of columns and clears the screen. *)
LEMMA ColumnsOk ==
    ASSUME cfg \in Configs, NEW t, Fine(t)
    PROVE  Ok(t, EraseLots(MoveTo([t EXCEPT !.mode.t = 0, !.mode.b = t.rows - 1,
                                            !.alt_mode.t = 0, !.alt_mode.b = t.rows - 1],
                                  0, 0, 0), TRUE, TRUE, FALSE))
<1> DEFINE u == [t EXCEPT !.mode.t = 0, !.mode.b = t.rows - 1,
                          !.alt_mode.t = 0, !.alt_mode.b = t.rows - 1]
           v == MoveTo(u, 0, 0, 0)
           w == EraseLots(v, TRUE, TRUE, FALSE)
<1>1. Ok(t, u)
  BY MarginsOk, Zenon
<1> HIDE DEF u
<1>2. Ok(u, v)
  BY <1>1, MoveToOk DEF Ok
<1> HIDE DEF v
<1>3. Ok(v, w)
  <2>1. Fine(v) /\ TRUE \in BOOLEAN /\ FALSE \in BOOLEAN
    BY <1>2 DEF Ok
  <2> QED
    BY <2>1, EraseLotsOk, Zenon
<1> HIDE DEF w
<1>4. Ok(t, v)
  BY <1>1, <1>2, OkChains
<1>5. Ok(t, w)
  BY <1>3, <1>4, OkChains
<1> QED
  BY <1>5 DEF u, v, w

LEMMA FlagsOk ==
    ASSUME NEW t, Fine(t), NEW on \in BOOLEAN
    PROVE  /\ Ok(t, [t EXCEPT !.mode.om = on])
           /\ Ok(t, [t EXCEPT !.mode.wrap = on])
           /\ Ok(t, [t EXCEPT !.mode.wnext = on])
<1> DEFINE o == [t.mode EXCEPT !.om = on]
           w == [t.mode EXCEPT !.wrap = on]
           n == [t.mode EXCEPT !.wnext = on]
<1>1. Fields(t)
  BY Here DEF Fine
<1>2. /\ o \in ModeStates /\ o.t = t.mode.t /\ o.b = t.mode.b
      /\ w \in ModeStates /\ w.t = t.mode.t /\ w.b = t.mode.b
      /\ n \in ModeStates /\ n.t = t.mode.t /\ n.b = t.mode.b
  BY <1>1 DEF Fields, ModeStates
<1>3. /\ [t EXCEPT !.mode.om = on] = [t EXCEPT !.mode = o]
      /\ [t EXCEPT !.mode.wrap = on] = [t EXCEPT !.mode = w]
      /\ [t EXCEPT !.mode.wnext = on] = [t EXCEPT !.mode = n]
  BY Zenon
<1> HIDE DEF o, w, n
<1>4. Ok(t, [t EXCEPT !.mode = o]) /\ Ok(t, [t EXCEPT !.mode = w]) /\ Ok(t, [t EXCEPT !.mode = n])
  BY <1>2, ModeOk
<1> QED
  BY <1>3, <1>4, Zenon

(* Mode 1049 saves or restores the cursor, too. *)
LEMMA AlternateSteps ==
    ASSUME cfg \in Configs, NEW t, Fine(t), NEW which \in {0, 1}, NEW reset \in BOOLEAN,
           NEW keep \in BOOLEAN, NEW t1 \in {Save(t), t},
           NEW u \in {Restore(SwapScreen(t1, which, reset, keep)),
                      SwapScreen(t1, which, reset, keep)}
    PROVE  Steps(t, [u EXCEPT !.disptop = 0])
<1> DEFINE s == SwapScreen(t1, which, reset, keep)
<1>1. Ok(t, t1)
  BY SaveOk, OkStays
<1>2. Fine(t1)
  BY <1>1 DEF Ok
<1>3. Fine(s)
  BY <1>2, SwapFine
<1>4. Ok(s, Restore(s)) /\ Ok(s, s)
  <2> HIDE DEF s
  <2> QED
    BY <1>3, RestoreOk, OkStays
<1>5. Ok(SwapScreen(t1, which, reset, keep), u)
  BY <1>4
<1> QED
  BY <1>1, <1>5, SwapSteps

(* The results of toggle_mode(), by name. *)
Columns(t) ==
    EraseLots(MoveTo([t EXCEPT !.mode.t = 0, !.mode.b = t.rows - 1,
                               !.alt_mode.t = 0, !.alt_mode.b = t.rows - 1],
                     0, 0, 0), TRUE, TRUE, FALSE)
Which(state) == IF cfg.no_alt_screen THEN 0 ELSE state
Origin(t, state) == [t EXCEPT !.mode.om = (state = 1)]
Wraps(t, state) == [t EXCEPT !.mode.wrap = (state = 1)]
Kept47(t, which) == [SwapScreen(t, which, FALSE, FALSE) EXCEPT !.disptop = 0]
Cleared1047(t, which) == [SwapScreen(t, which, TRUE, TRUE) EXCEPT !.disptop = 0]
Alternates(t, t1, which) ==
    {[u EXCEPT !.disptop = 0] : u \in {Restore(SwapScreen(t1, which, TRUE, FALSE)),
                                       SwapScreen(t1, which, TRUE, FALSE)}}

LEMMA NamedSteps ==
    ASSUME cfg \in Configs, NEW t, Fine(t), NEW state \in {0, 1}
    PROVE  /\ Ok(t, Columns(t))
           /\ Ok(t, Origin(t, state))
           /\ Ok(t, Wraps(t, state))
<1> DEFINE on == state = 1
<1>1. on \in BOOLEAN
  OBVIOUS
<1>2. Origin(t, state) = [t EXCEPT !.mode.om = on] /\ Wraps(t, state) = [t EXCEPT !.mode.wrap = on]
  BY Zenon DEF Origin, Wraps
<1> HIDE DEF on
<1>3. Ok(t, Origin(t, state)) /\ Ok(t, Wraps(t, state))
  BY <1>1, <1>2, FlagsOk, ZenonT(60)
<1> QED
  BY <1>3, ColumnsOk, Zenon DEF Columns

LEMMA NamedSwitches ==
    ASSUME cfg \in Configs, NEW t, Fine(t), NEW which \in {0, 1}
    PROVE  Steps(t, Kept47(t, which)) /\ Steps(t, Cleared1047(t, which))
<1>1. TRUE \in BOOLEAN /\ FALSE \in BOOLEAN
  OBVIOUS
<1> QED
  BY <1>1, SwapAloneSteps, Zenon DEF Kept47, Cleared1047

LEMMA NamedAlternates ==
    ASSUME cfg \in Configs, NEW t, Fine(t), NEW which \in {0, 1}, NEW t1 \in {Save(t), t},
           NEW v \in Alternates(t, t1, which)
    PROVE  Steps(t, v)
<1>1. TRUE \in BOOLEAN /\ FALSE \in BOOLEAN
  OBVIOUS
<1>2. PICK u \in {Restore(SwapScreen(t1, which, TRUE, FALSE)),
                  SwapScreen(t1, which, TRUE, FALSE)} : v = [u EXCEPT !.disptop = 0]
  BY Zenon DEF Alternates
<1> QED
  BY <1>1, <1>2, AlternateSteps, Zenon

LEMMA ToggledIs ==
    ASSUME NEW t, NEW state
    PROVE  /\ Toggled(t, 3, state) = Columns(t)
           /\ Toggled(t, 6, state) = Origin(t, state)
           /\ Toggled(t, 7, state) = Wraps(t, state)
           /\ Toggled(t, 47, state) = Kept47(t, Which(state))
           /\ Toggled(t, 1047, state) = Cleared1047(t, Which(state))
           /\ Toggled(t, 1048, state) \in {Save(t), Restore(t), t}
           /\ \E t1 \in {Save(t), t} : Toggled(t, 1049, state) \in Alternates(t, t1, Which(state))
<1>1. Toggled(t, 3, state) = Columns(t)
  BY DEF Toggled, Columns
<1>2. Toggled(t, 6, state) = Origin(t, state)
  BY DEF Toggled, Origin
<1>3. Toggled(t, 7, state) = Wraps(t, state)
  BY DEF Toggled, Wraps
<1>4. Toggled(t, 47, state) = Kept47(t, Which(state))
  BY DEF Toggled, Kept47, Which
<1>5. Toggled(t, 1047, state) = Cleared1047(t, Which(state))
  BY DEF Toggled, Cleared1047, Which
<1>6. Toggled(t, 1048, state) \in {Save(t), Restore(t), t}
  BY DEF Toggled
<1>7. \E t1 \in {Save(t), t} : Toggled(t, 1049, state) \in Alternates(t, t1, Which(state))
  <2> DEFINE saving == ~cfg.no_alt_screen /\ state = 1
             restoring == ~cfg.no_alt_screen /\ state = 0
             t1 == IF saving THEN Save(t) ELSE t
             s == SwapScreen(t1, Which(state), TRUE, FALSE)
             u == IF restoring THEN Restore(s) ELSE s
  <2>1. Toggled(t, 1049, state) = [u EXCEPT !.disptop = 0]
    BY DEF Toggled, Which
  <2>2. t1 \in {Save(t), t}
    OBVIOUS
  <2> HIDE DEF saving, restoring, t1
  <2>3. u \in {Restore(s), s}
    <3> HIDE DEF s
    <3> QED
      OBVIOUS
  <2> HIDE DEF u
  <2>4. Alternates(t, t1, Which(state)) = {[w EXCEPT !.disptop = 0] : w \in {Restore(s), s}}
    BY Zenon DEF Alternates
  <2> HIDE DEF s
  <2>5. Toggled(t, 1049, state) \in Alternates(t, t1, Which(state))
    BY <2>1, <2>3, <2>4
  <2> QED
    BY <2>2, <2>5
<1> QED
  BY <1>1, <1>2, <1>3, <1>4, <1>5, <1>6, <1>7

LEMMA EachToggledSteps ==
    ASSUME cfg \in Configs, NEW t, Fine(t), Seen(t), NEW state \in {0, 1}
    PROVE  /\ Steps(t, Toggled(t, 3, state)) /\ Steps(t, Toggled(t, 6, state))
           /\ Steps(t, Toggled(t, 7, state)) /\ Steps(t, Toggled(t, 47, state))
           /\ Steps(t, Toggled(t, 1047, state)) /\ Steps(t, Toggled(t, 1048, state))
           /\ Steps(t, Toggled(t, 1049, state))
<1>1. Which(state) \in {0, 1}
  BY DEF Which
<1>2. /\ Toggled(t, 3, state) = Columns(t)
      /\ Toggled(t, 6, state) = Origin(t, state)
      /\ Toggled(t, 7, state) = Wraps(t, state)
      /\ Toggled(t, 47, state) = Kept47(t, Which(state))
      /\ Toggled(t, 1047, state) = Cleared1047(t, Which(state))
      /\ Toggled(t, 1048, state) \in {Save(t), Restore(t), t}
  BY ToggledIs
<1>3. PICK t1 \in {Save(t), t} : Toggled(t, 1049, state) \in Alternates(t, t1, Which(state))
  BY ToggledIs
<1>4. Ok(t, Columns(t)) /\ Ok(t, Origin(t, state)) /\ Ok(t, Wraps(t, state))
  BY NamedSteps
<1>5. Steps(t, Kept47(t, Which(state))) /\ Steps(t, Cleared1047(t, Which(state)))
  BY <1>1, NamedSwitches
<1>6. Ok(t, Save(t)) /\ Ok(t, Restore(t)) /\ Ok(t, t)
  BY SaveOk, RestoreOk, OkStays
<1>7. \A u : Ok(t, u) => Steps(t, u)
  BY OkSteps
<1>8. /\ Steps(t, Toggled(t, 3, state)) /\ Steps(t, Toggled(t, 6, state))
      /\ Steps(t, Toggled(t, 7, state))
  BY <1>2, <1>4, <1>7
<1>9. Steps(t, Toggled(t, 47, state)) /\ Steps(t, Toggled(t, 1047, state))
  BY <1>2, <1>5
<1>10. Steps(t, Toggled(t, 1048, state))
  BY <1>2, <1>6, <1>7
<1>11. Steps(t, Toggled(t, 1049, state))
  BY <1>1, <1>3, NamedAlternates
<1> QED
  BY <1>8, <1>9, <1>10, <1>11

LEMMA ToggledSteps ==
    ASSUME cfg \in Configs, NEW t, Fine(t), Seen(t), NEW state \in {0, 1}
    PROVE  \A mode \in {3, 6, 7, 47, 1047, 1048, 1049} : Steps(t, Toggled(t, mode, state))
BY EachToggledSteps

-------------------------------------------------------------------------------
(* Resizing: the main screen, while term_size() works on it.                *)

Half(t) ==
    /\ t \in Terminals
    /\ t.rows # 1
    /\ Len(t.screen) = t.rows
    /\ Fits(t, t.curs)
    /\ t.tempsblines <= Len(t.scrollback)
    /\ t.alt_save.curs.y >= 0
    /\ Restorable(t)

(* The text of a screen and scrollback down to row n of the screen.         *)
Text(s, screen, n) == Cat(s, SubSeq(screen, 1, n))

MainText(t) == Text(t.scrollback, t.screen, t.curs.y + 1)

HalfFields(t) ==
    /\ t.rows \in Nat \ {0, 1} /\ t.cols \in Nat \ {0, 1}
    /\ t.screen \in Seq(CleanRows) /\ t.screen \in Seq(Rows) /\ Len(t.screen) = t.rows
    /\ t.scrollback \in Seq(Rows) /\ Len(t.scrollback) \in Nat
    /\ t.tempsblines \in Nat /\ t.tempsblines <= Len(t.scrollback)
    /\ t.curs \in Points /\ t.curs.x \in Nat /\ t.curs.y \in Nat
    /\ t.curs.x < t.cols /\ t.curs.y < t.rows
    /\ t.save \in Saves /\ t.save.curs \in SavedPoints /\ t.save.curs.y \in Int

LEMMA HalfHere ==
    ASSUME NEW t, Half(t)
    PROVE  HalfFields(t)
<1>1. t \in Terminals
  BY DEF Half
<1>2. /\ t.rows \in Nat \ {0, 1} /\ t.cols \in Nat \ {0, 1}
      /\ t.screen \in Seq(CleanRows) /\ Len(t.screen) = t.rows
      /\ t.scrollback \in Seq(Rows) /\ t.tempsblines \in Nat
      /\ t.tempsblines <= Len(t.scrollback)
      /\ t.curs \in Points /\ t.save \in Saves
  BY <1>1 DEF Half, Terminals
<1>3. /\ t.curs.x \in Nat /\ t.curs.y \in Nat
      /\ t.curs.x < t.cols /\ t.curs.y < t.rows
  BY <1>2 DEF Half, Fits, Points
<1>4. t.save.curs \in SavedPoints /\ t.save.curs.y \in Int
  BY <1>2 DEF Saves, SavedPoints
<1>5. t.screen \in Seq(Rows) /\ Len(t.scrollback) \in Nat
  BY <1>2, RowTypes, LenProperties
<1> QED
  BY <1>2, <1>3, <1>4, <1>5 DEF HalfFields

LEMMA CatRows ==
    ASSUME NEW a \in Seq(Rows), NEW b \in Seq(Rows)
    PROVE  /\ Cat(a, b) \in Seq(Rows)
           /\ Len(Cat(a, b)) = Len(a) + Len(b)
           /\ \A i \in 1 .. Len(a) + Len(b) :
                 Cat(a, b)[i] = IF i <= Len(a) THEN a[i] ELSE b[i - Len(a)]
BY CatFacts

(* Moving the first m rows of the screen to the scrollback. *)
LEMMA MovedText ==
    ASSUME NEW s \in Seq(Rows), NEW screen \in Seq(Rows), NEW m \in Nat, NEW n \in Nat,
           NEW e \in Nat, m <= n, n <= e, e <= Len(screen)
    PROVE  Text(Cat(s, SubSeq(screen, 1, m)), SubSeq(screen, m + 1, e), n - m)
              = Text(s, screen, n)
<1>1. Len(s) \in Nat /\ Len(screen) \in Nat
  BY LenProperties
<1> DEFINE top == SubSeq(screen, 1, m)
           rest == SubSeq(screen, m + 1, e)
           shown == SubSeq(rest, 1, n - m)
           all == SubSeq(screen, 1, n)
           more == Cat(s, top)
           left == Cat(more, shown)
           right == Cat(s, all)
<1>2. /\ top \in Seq(Rows) /\ Len(top) = m
      /\ \A k \in 1 .. m : top[k] = screen[k]
  <2>1. 1 \in Nat \ {0} /\ m \in Int /\ m <= Len(screen)
    BY <1>1
  <2> QED
    BY <1>1, <2>1, SubSeqFacts
<1>3. /\ all \in Seq(Rows) /\ Len(all) = n
      /\ \A k \in 1 .. n : all[k] = screen[k]
  <2>1. 1 \in Nat \ {0} /\ n \in Int /\ n <= Len(screen)
    BY <1>1
  <2> QED
    BY <1>1, <2>1, SubSeqFacts
<1>4. /\ rest \in Seq(Rows) /\ Len(rest) = e - m
      /\ \A k \in 1 .. e - m : rest[k] = screen[m + k]
  <2> DEFINE from == m + 1
  <2>1. from \in Nat \ {0} /\ e \in Int /\ e <= Len(screen) /\ from = m + 1
    BY <1>1
  <2> HIDE DEF from
  <2>2. /\ SubSeq(screen, from, e) \in Seq(Rows)
        /\ Len(SubSeq(screen, from, e)) = IF from <= e THEN e - from + 1 ELSE 0
        /\ \A k \in 1 .. e - from + 1 : SubSeq(screen, from, e)[k] = screen[from + k - 1]
    BY <2>1, SubSeqFacts
  <2> QED
    BY <1>1, <2>1, <2>2
<1> HIDE DEF top, rest, all
<1>5. /\ shown \in Seq(Rows) /\ Len(shown) = n - m
      /\ \A k \in 1 .. n - m : shown[k] = rest[k]
  <2> DEFINE j == n - m
  <2>1. 1 \in Nat \ {0} /\ j \in Nat /\ j <= Len(rest)
    BY <1>1, <1>4
  <2> HIDE DEF j
  <2>2. /\ SubSeq(rest, 1, j) \in Seq(Rows)
        /\ Len(SubSeq(rest, 1, j)) = IF 1 <= j THEN j - 1 + 1 ELSE 0
        /\ \A k \in 1 .. j - 1 + 1 : SubSeq(rest, 1, j)[k] = rest[1 + k - 1]
    BY <1>4, <2>1, SubSeqFacts
  <2>3. /\ SubSeq(rest, 1, j) \in Seq(Rows) /\ Len(SubSeq(rest, 1, j)) = j
        /\ \A k \in 1 .. j : SubSeq(rest, 1, j)[k] = rest[k]
    BY <2>1, <2>2
  <2> QED
    BY <2>3 DEF j
<1> HIDE DEF shown
<1>6. /\ more \in Seq(Rows) /\ Len(more) = Len(s) + m
      /\ \A k \in 1 .. Len(s) + m : more[k] = IF k <= Len(s) THEN s[k] ELSE top[k - Len(s)]
  <2>1. /\ more \in Seq(Rows) /\ Len(more) = Len(s) + Len(top)
        /\ \A k \in 1 .. Len(s) + Len(top) :
              more[k] = IF k <= Len(s) THEN s[k] ELSE top[k - Len(s)]
    <3>1. top \in Seq(Rows)
      BY <1>2
    <3> QED
      BY <3>1, CatRows
  <2> QED
    BY <1>2, <2>1
<1> HIDE DEF more
<1>7. /\ left \in Seq(Rows) /\ Len(left) = Len(s) + n
      /\ \A k \in 1 .. Len(s) + n :
            left[k] = IF k <= Len(s) + m THEN more[k] ELSE shown[k - (Len(s) + m)]
  <2>1. /\ left \in Seq(Rows) /\ Len(left) = Len(more) + Len(shown)
        /\ \A k \in 1 .. Len(more) + Len(shown) :
              left[k] = IF k <= Len(more) THEN more[k] ELSE shown[k - Len(more)]
    <3>1. more \in Seq(Rows) /\ shown \in Seq(Rows)
      BY <1>5, <1>6
    <3> QED
      BY <3>1, CatRows
  <2>2. Len(more) = Len(s) + m /\ Len(more) + Len(shown) = Len(s) + n
    BY <1>1, <1>5, <1>6
  <2> QED
    BY <2>1, <2>2
<1>8. /\ right \in Seq(Rows) /\ Len(right) = Len(s) + n
      /\ \A k \in 1 .. Len(s) + n : right[k] = IF k <= Len(s) THEN s[k] ELSE all[k - Len(s)]
  BY <1>3, CatFacts, ZenonT(60)
<1> HIDE DEF left, right
<1>9. ASSUME NEW k \in 1 .. Len(s) + n PROVE left[k] = right[k]
  <2>1. CASE k <= Len(s)
    BY <1>1, <1>6, <1>7, <1>8, <2>1, SMTT(40)
  <2>2. CASE k > Len(s) /\ k <= Len(s) + m
    <3>1. k - Len(s) \in 1 .. m /\ k - Len(s) \in 1 .. n
      BY <1>1, <2>2
    <3>2. left[k] = top[k - Len(s)]
      BY <1>1, <1>6, <1>7, <2>2
    <3>3. right[k] = all[k - Len(s)]
      BY <1>1, <1>8, <2>2
    <3> QED
      BY <1>2, <1>3, <3>1, <3>2, <3>3
  <2>3. CASE k > Len(s) + m
    <3> DEFINE i == k - (Len(s) + m)
    <3>1. i \in 1 .. n - m /\ i \in 1 .. e - m /\ m + i \in 1 .. n /\ m + i = k - Len(s)
      BY <1>1, <2>3
    <3>2. left[k] = shown[i]
      BY <1>1, <1>7, <2>3
    <3>3. right[k] = all[m + i]
      BY <1>1, <1>8, <2>3, <3>1
    <3> HIDE DEF i
    <3> QED
      BY <1>3, <1>4, <1>5, <3>1, <3>2, <3>3
  <2> QED
    BY <1>1, <2>1, <2>2, <2>3
<1>10. left = right
  BY <1>7, <1>8, <1>9, SeqEqual
<1> QED
  BY <1>10 DEF Text, left, right, more, shown, top, rest, all

(* How many rows are deleted at the bottom and moved at the top. *)
Deleted(old, rows, y) == Clip(old - rows, 0, old - 1 - y)
Moved(old, rows, y) == Max({0, old - rows}) - Deleted(old, rows, y)

LEMMA ShrinkCounts ==
    ASSUME NEW old \in Nat, NEW rows \in Nat \ {0, 1}, NEW y \in Nat, y < old
    PROVE  /\ Deleted(old, rows, y) \in Nat /\ Moved(old, rows, y) \in Nat
           /\ Moved(old, rows, y) <= y /\ y + 1 <= old - Deleted(old, rows, y)
           /\ old - Moved(old, rows, y) - Deleted(old, rows, y)
                 = IF rows < old THEN rows ELSE old
<1> DEFINE d == old - rows
           h == old - 1 - y
<1>1. d \in Int /\ 0 \in Int /\ h \in Int /\ 0 <= h
  OBVIOUS
<1>2. /\ Clip(d, 0, h) \in 0 .. h
      /\ d \in 0 .. h => Clip(d, 0, h) = d
      /\ d < 0 => Clip(d, 0, h) = 0
      /\ d > h => Clip(d, 0, h) = h
  <2> HIDE DEF d, h
  <2> QED
    BY <1>1, ClipFacts
<1>3. Max({0, d}) = IF 0 >= d THEN 0 ELSE d
  <2> HIDE DEF d
  <2> QED
    BY <1>1, MinMax
<1> QED
  BY <1>2, <1>3 DEF Deleted, Moved

LEMMA ShrunkFacts ==
    ASSUME NEW t, Half(t), NEW rows \in Nat \ {0, 1}
    PROVE  /\ Half(Shrunk(t, rows))
           /\ Shrunk(t, rows).rows = IF rows < t.rows THEN rows ELSE t.rows
           /\ Shrunk(t, rows).alt_which = t.alt_which
           /\ MainText(Shrunk(t, rows)) = MainText(t)
<1> DEFINE deleted == Deleted(t.rows, rows, t.curs.y)
           moved == Moved(t.rows, rows, t.curs.y)
           last == t.rows - deleted
           n == last - moved
           from == moved + 1
           scr == SubSeq(t.screen, from, last)
           top == SubSeq(t.screen, 1, moved)
           sb == Cat(t.scrollback, top)
           temp == t.tempsblines + moved
           y == t.curs.y - moved
           c == [t.curs EXCEPT !.y = y]
           sy == t.save.curs.y - moved
           s == [t.save EXCEPT !.curs.y = sy]
           u == [t EXCEPT !.screen = scr, !.scrollback = sb, !.tempsblines = temp,
                          !.curs = c, !.save = s, !.rows = n]
<1>1. HalfFields(t) /\ t \in Terminals /\ Restorable(t)
  BY HalfHere DEF Half
<1>2. /\ deleted \in Nat /\ moved \in Nat
      /\ moved <= t.curs.y /\ t.curs.y + 1 <= t.rows - deleted
      /\ t.rows - moved - deleted = IF rows < t.rows THEN rows ELSE t.rows
  <2>1. t.rows \in Nat /\ t.curs.y \in Nat /\ t.curs.y < t.rows
    BY <1>1 DEF HalfFields
  <2> QED
    BY <2>1, ShrinkCounts
<1>3. Shrunk(t, rows) = u
  <2>1. Shrunk(t, rows)
          = [t EXCEPT !.screen = SubSeq(t.screen, moved + 1, Len(t.screen) - deleted),
                      !.scrollback = t.scrollback \o SubSeq(t.screen, 1, moved),
                      !.tempsblines = t.tempsblines + moved,
                      !.curs = c, !.save = s,
                      !.rows = t.rows - moved - deleted]
    BY Zenon DEF Shrunk, Deleted, Moved
  <2>2. Len(t.screen) - deleted = last /\ t.rows - moved - deleted = n
    BY <1>1, <1>2 DEF HalfFields
  <2> HIDE DEF c, s
  <2> QED
    BY <2>1, <2>2, Zenon DEF Cat
<1> HIDE DEF deleted
<1> HIDE DEF moved
<1>a. /\ t.rows \in Nat \ {0, 1} /\ t.curs.y \in Nat /\ t.curs.y < t.rows
      /\ t.curs.x < t.cols /\ Len(t.screen) = t.rows
      /\ t.tempsblines \in Nat /\ t.save.curs.y \in Int
      /\ Len(t.scrollback) \in Nat /\ t.tempsblines <= Len(t.scrollback)
  BY <1>1 DEF HalfFields
<1>4. /\ last \in Nat /\ last <= t.rows /\ t.curs.y < last
      /\ n \in Nat \ {0, 1} /\ from \in Nat \ {0}
      /\ from <= last /\ n = last - from + 1
      /\ n = IF rows < t.rows THEN rows ELSE t.rows
      /\ temp \in Nat /\ y \in Nat /\ sy \in Int /\ y < n
      /\ y + 1 = (t.curs.y + 1) - moved
      /\ moved <= t.rows /\ moved <= t.curs.y + 1
  <2> DEFINE old == t.rows
             y0 == t.curs.y
             sy0 == t.save.curs.y
             temp0 == t.tempsblines
  <2>1. /\ old \in Nat \ {0, 1} /\ y0 \in Nat /\ y0 < old /\ sy0 \in Int /\ temp0 \in Nat
        /\ deleted \in Nat /\ moved \in Nat /\ moved <= y0 /\ y0 + 1 <= old - deleted
        /\ old - moved - deleted = IF rows < old THEN rows ELSE old
    BY <1>2, <1>a
  <2> HIDE DEF old, y0, sy0, temp0
  <2>2. /\ old - deleted \in Nat /\ old - deleted <= old /\ y0 < old - deleted
        /\ old - deleted - moved \in Nat \ {0, 1} /\ moved + 1 \in Nat \ {0}
        /\ moved + 1 <= old - deleted
        /\ old - deleted - moved = old - deleted - (moved + 1) + 1
        /\ old - deleted - moved = IF rows < old THEN rows ELSE old
        /\ temp0 + moved \in Nat /\ y0 - moved \in Nat /\ sy0 - moved \in Int
        /\ y0 - moved < old - deleted - moved
        /\ (y0 - moved) + 1 = (y0 + 1) - moved
        /\ moved <= old /\ moved <= y0 + 1
    BY <2>1
  <2> QED
    BY <2>2 DEF old, y0, sy0, temp0
<1>5. scr \in Seq(CleanRows) /\ Len(scr) = n
  <2> HIDE DEF last, from, n
  <2>1. t.screen \in Seq(CleanRows) /\ last <= Len(t.screen) /\ last \in Int
    BY <1>1, <1>4 DEF HalfFields
  <2> QED
    BY <1>4, <2>1, SubSeqFacts
<1>6. top \in Seq(CleanRows) /\ top \in Seq(Rows) /\ Len(top) = moved
  <2>1. t.screen \in Seq(CleanRows) /\ moved <= Len(t.screen) /\ moved \in Int /\ 1 \in Nat \ {0}
    BY <1>1, <1>2, <1>4 DEF HalfFields
  <2>2. /\ SubSeq(t.screen, 1, moved) \in Seq(CleanRows)
        /\ Len(SubSeq(t.screen, 1, moved)) = IF 1 <= moved THEN moved - 1 + 1 ELSE 0
    BY <2>1, SubSeqFacts
  <2>3. SubSeq(t.screen, 1, moved) \in Seq(Rows)
    BY <2>2, RowTypes
  <2> QED
    BY <1>2, <2>2, <2>3
<1> HIDE DEF top
<1>7. /\ sb \in Seq(Rows) /\ Len(sb) = Len(t.scrollback) + moved
      /\ \A i \in 1 .. Len(t.scrollback) + moved :
            sb[i] = IF i <= Len(t.scrollback) THEN t.scrollback[i]
                    ELSE top[i - Len(t.scrollback)]
  <2>1. t.scrollback \in Seq(Rows) /\ top \in Seq(Rows)
    BY <1>1, <1>6 DEF HalfFields
  <2>2. /\ sb \in Seq(Rows) /\ Len(sb) = Len(t.scrollback) + Len(top)
        /\ \A i \in 1 .. Len(t.scrollback) + Len(top) :
              sb[i] = IF i <= Len(t.scrollback) THEN t.scrollback[i]
                      ELSE top[i - Len(t.scrollback)]
    BY <2>1, CatRows
  <2> QED
    BY <1>6, <2>2
<1>8. /\ c \in Points /\ c.x = t.curs.x /\ c.y = y
      /\ s \in Saves
  <2>1. c \in Points /\ c.x = t.curs.x /\ c.y = y
    <3> HIDE DEF y
    <3> QED
      BY <1>1, <1>4 DEF HalfFields, Points
  <2>2. s \in Saves
    <3> HIDE DEF sy
    <3> QED
      BY <1>1, <1>4 DEF HalfFields, Saves, SavedPoints
  <2> QED
    BY <2>1, <2>2
<1>9. /\ u \in Terminals /\ u.screen = scr /\ u.rows = n /\ u.cols = t.cols
      /\ u.scrollback = sb /\ u.tempsblines = temp /\ u.curs = c
      /\ u.alt_which = t.alt_which /\ u.alt_save = t.alt_save
  <2> HIDE DEF scr, n, sb, temp, c, s
  <2> QED
    BY <1>1, <1>4, <1>5, <1>7, <1>8 DEF Terminals
<1> HIDE DEF u
<1>10. Restorable(u)
  <2> SUFFICES ASSUME NEW i \in 1 .. Len(sb), i > Len(sb) - temp
               PROVE  sb[i] \in CleanRows
    BY <1>9, Zenon DEF Restorable
  <2>1. i \in 1 .. Len(t.scrollback) + moved /\ i > Len(t.scrollback) - t.tempsblines
    BY <1>2, <1>7, <1>a
  <2>2. CASE i <= Len(t.scrollback)
    <3>1. i \in 1 .. Len(t.scrollback) /\ sb[i] = t.scrollback[i]
      BY <1>2, <1>7, <1>a, <2>1, <2>2
    <3> QED
      BY <1>1, <2>1, <3>1 DEF Restorable
  <2>3. CASE i > Len(t.scrollback)
    <3>1. i - Len(t.scrollback) \in 1 .. Len(top) /\ sb[i] = top[i - Len(t.scrollback)]
      <4> DEFINE l == Len(t.scrollback)
      <4>1. l \in Nat /\ moved \in Nat /\ i \in 1 .. l + moved /\ i > l
        BY <1>2, <1>a, <2>1, <2>3
      <4>2. \A j \in 1 .. l + moved : sb[j] = IF j <= l THEN t.scrollback[j] ELSE top[j - l]
        BY <1>7
      <4> HIDE DEF l
      <4>3. i - l \in 1 .. moved /\ ~(i <= l)
        BY <4>1
      <4>4. sb[i] = top[i - l]
        BY <4>1, <4>2, <4>3
      <4> QED
        BY <1>6, <4>3, <4>4 DEF l
    <3> QED
      BY <1>6, <3>1, ElementOfSeq
  <2> QED
    BY <1>1, <2>1, <2>2, <2>3 DEF HalfFields
<1>11. Half(u)
  <2>1. temp <= Len(sb) /\ c.x < t.cols /\ c.y < n
    BY <1>2, <1>4, <1>7, <1>8, <1>a
  <2> HIDE DEF scr, n, sb, temp, c
  <2> QED
    BY <1>4, <1>5, <1>9, <1>10, <2>1 DEF Half, Fits
<1>12. MainText(u) = MainText(t)
  <2> DEFINE k == t.curs.y + 1
  <2>1. /\ t.scrollback \in Seq(Rows) /\ t.screen \in Seq(Rows)
        /\ k \in Nat /\ moved \in Nat /\ last \in Nat
        /\ moved <= k /\ k <= last /\ last <= Len(t.screen)
    <3>1. t.scrollback \in Seq(Rows) /\ t.screen \in Seq(Rows)
      BY <1>1 DEF HalfFields
    <3> DEFINE y0 == t.curs.y
    <3>2. /\ y0 \in Nat /\ y0 < last /\ last \in Nat /\ last <= Len(t.screen)
          /\ moved \in Nat /\ moved <= y0
      BY <1>2, <1>4, <1>a
    <3> HIDE DEF y0, last
    <3>3. y0 + 1 \in Nat /\ moved <= y0 + 1 /\ y0 + 1 <= last
      BY <3>2
    <3> QED
      BY <3>1, <3>2, <3>3 DEF y0
  <2>5. y + 1 = k - moved
    BY <1>4, Zenon
  <2> HIDE DEF k, last
  <2>2. Text(Cat(t.scrollback, SubSeq(t.screen, 1, moved)),
             SubSeq(t.screen, moved + 1, last), k - moved)
           = Text(t.scrollback, t.screen, k)
    BY <2>1, MovedText
  <2>3. k - moved = u.curs.y + 1
    <3> HIDE DEF y
    <3> QED
      BY <1>8, <1>9, <2>5
  <2>4. MainText(u) = Text(sb, scr, k - moved)
    BY <1>9, <2>3, Zenon DEF MainText
  <2> QED
    BY <2>2, <2>4, Zenon DEF MainText, k, top
<1> QED
  BY <1>3, <1>4, <1>9, <1>11, <1>12

LEMMA Cleaned ==
    ASSUME NEW s \in Seq(Rows), \A i \in 1 .. Len(s) : s[i] \in CleanRows
    PROVE  s \in Seq(CleanRows)
<1>1. Len(s) \in Nat /\ s \in [1 .. Len(s) -> Rows]
  BY LenProperties
<1>2. s \in [1 .. Len(s) -> CleanRows]
  BY <1>1
<1> QED
  BY <1>1, <1>2, SeqDef

(* Bringing the last b lines of the scrollback back to the screen. *)
LEMMA BackText ==
    ASSUME NEW s \in Seq(Rows), NEW screen \in Seq(Rows), NEW z \in Seq(Rows), NEW b \in Nat,
           NEW n \in Nat, b <= Len(s), n <= Len(screen)
    PROVE  Text(SubSeq(s, 1, Len(s) - b), Cat(Cat(LastN(s, b), screen), z), n + b)
              = Text(s, screen, n)
<1>1. Len(s) \in Nat /\ Len(screen) \in Nat /\ Len(z) \in Nat
  BY LenProperties
<1> DEFINE kept == Len(s) - b
           m == n + b
           older == SubSeq(s, 1, kept)
           back == LastN(s, b)
           some == Cat(back, screen)
           whole == Cat(some, z)
           shown == SubSeq(whole, 1, m)
           all == SubSeq(screen, 1, n)
           left == Cat(older, shown)
           right == Cat(s, all)
<1>2. /\ kept \in Nat /\ kept <= Len(s) /\ m \in Nat /\ kept + b = Len(s)
      /\ kept + m = Len(s) + n
  BY <1>1
<1>3. /\ older \in Seq(Rows) /\ Len(older) = kept
      /\ \A k \in 1 .. kept : older[k] = s[k]
  <2>1. 1 \in Nat \ {0} /\ kept \in Int /\ kept <= Len(s)
    BY <1>2
  <2> HIDE DEF kept
  <2>2. /\ older \in Seq(Rows) /\ Len(older) = IF 1 <= kept THEN kept - 1 + 1 ELSE 0
        /\ \A k \in 1 .. kept - 1 + 1 : older[k] = s[1 + k - 1]
    BY <2>1, SubSeqFacts
  <2> HIDE DEF older
  <2> QED
    BY <1>2, <2>2
<1>4. /\ back \in Seq(Rows) /\ Len(back) = b
      /\ \A k \in 1 .. b : back[k] = s[kept + k]
  <2>1. /\ back \in Seq(Rows) /\ Len(back) = IF b <= Len(s) THEN b ELSE Len(s)
        /\ \A k \in 1 .. Len(back) : back[k] = s[Len(s) - Len(back) + k]
    BY LastNFacts
  <2> HIDE DEF back
  <2>2. Len(back) = b
    BY <1>1, <2>1
  <2> QED
    BY <2>1, <2>2
<1>5. /\ all \in Seq(Rows) /\ Len(all) = n
      /\ \A k \in 1 .. n : all[k] = screen[k]
  <2>1. 1 \in Nat \ {0} /\ n \in Int /\ n <= Len(screen)
    BY <1>1
  <2> QED
    BY <1>1, <2>1, SubSeqFacts
<1> HIDE DEF kept, m
<1> HIDE DEF older, back, all
<1>6. /\ some \in Seq(Rows) /\ Len(some) = b + Len(screen)
      /\ \A k \in 1 .. b + Len(screen) :
            some[k] = IF k <= b THEN back[k] ELSE screen[k - b]
  <2>1. /\ some \in Seq(Rows) /\ Len(some) = Len(back) + Len(screen)
        /\ \A k \in 1 .. Len(back) + Len(screen) :
              some[k] = IF k <= Len(back) THEN back[k] ELSE screen[k - Len(back)]
    <3>1. back \in Seq(Rows)
      BY <1>4
    <3> QED
      BY <3>1, CatRows
  <2> QED
    BY <1>4, <2>1
<1> HIDE DEF some
<1>7. /\ whole \in Seq(Rows) /\ m <= Len(whole)
      /\ \A k \in 1 .. m : whole[k] = some[k]
  <2>1. /\ whole \in Seq(Rows) /\ Len(whole) = Len(some) + Len(z)
        /\ \A k \in 1 .. Len(some) + Len(z) :
              whole[k] = IF k <= Len(some) THEN some[k] ELSE z[k - Len(some)]
    <3>1. some \in Seq(Rows)
      BY <1>6
    <3> QED
      BY <3>1, CatRows
  <2> HIDE DEF whole
  <2>2. m <= Len(some) /\ Len(some) \in Nat
    BY <1>1, <1>6 DEF m
  <2> QED
    BY <1>1, <1>2, <2>1, <2>2
<1> HIDE DEF whole
<1>8. /\ shown \in Seq(Rows) /\ Len(shown) = m
      /\ \A k \in 1 .. m : shown[k] = some[k]
  <2>1. 1 \in Nat \ {0} /\ m \in Int /\ m <= Len(whole) /\ whole \in Seq(Rows)
    BY <1>2, <1>7
  <2>2. /\ shown \in Seq(Rows) /\ Len(shown) = IF 1 <= m THEN m - 1 + 1 ELSE 0
        /\ \A k \in 1 .. m - 1 + 1 : shown[k] = whole[1 + k - 1]
    BY <2>1, SubSeqFacts
  <2> HIDE DEF shown
  <2> QED
    BY <1>2, <1>7, <2>2
<1> HIDE DEF shown
<1>9. /\ left \in Seq(Rows) /\ Len(left) = kept + m
      /\ \A k \in 1 .. kept + m : left[k] = IF k <= kept THEN older[k] ELSE shown[k - kept]
  <2>1. /\ left \in Seq(Rows) /\ Len(left) = Len(older) + Len(shown)
        /\ \A k \in 1 .. Len(older) + Len(shown) :
              left[k] = IF k <= Len(older) THEN older[k] ELSE shown[k - Len(older)]
    <3>1. older \in Seq(Rows) /\ shown \in Seq(Rows)
      BY <1>3, <1>8
    <3> QED
      BY <3>1, CatRows
  <2> QED
    BY <1>3, <1>8, <2>1
<1>10. /\ right \in Seq(Rows) /\ Len(right) = Len(s) + n
       /\ \A k \in 1 .. Len(s) + n : right[k] = IF k <= Len(s) THEN s[k] ELSE all[k - Len(s)]
  <2>1. /\ right \in Seq(Rows) /\ Len(right) = Len(s) + Len(all)
        /\ \A k \in 1 .. Len(s) + Len(all) :
              right[k] = IF k <= Len(s) THEN s[k] ELSE all[k - Len(s)]
    <3>1. all \in Seq(Rows)
      BY <1>5
    <3> QED
      BY <3>1, CatRows
  <2> QED
    BY <1>5, <2>1
<1> HIDE DEF left, right
<1>11. ASSUME NEW k \in 1 .. Len(s) + n PROVE left[k] = right[k]
  <2> DEFINE l == Len(s)
  <2>1. /\ l \in Nat /\ k \in 1 .. l + n /\ kept \in Nat /\ kept + b = l /\ kept + m = l + n
        /\ m = n + b
    BY <1>1, <1>2 DEF m
  <2> HIDE DEF l
  <2>2. CASE k <= kept
    <3>1. k \in 1 .. kept /\ k \in 1 .. kept + m /\ k <= l /\ k \in 1 .. l + n
      BY <2>1, <2>2
    <3>2. left[k] = older[k] /\ right[k] = s[k]
      BY <1>9, <1>10, <2>2, <3>1 DEF l
    <3> QED
      BY <1>3, <3>1, <3>2
  <2>3. CASE k > kept /\ k <= l
    <3>1. k - kept \in 1 .. b /\ k - kept \in 1 .. m /\ k \in 1 .. kept + m /\ ~(k <= kept)
          /\ kept + (k - kept) = k
      BY <2>1, <2>3
    <3>2. left[k] = shown[k - kept] /\ right[k] = s[k]
      BY <1>9, <1>10, <2>1, <2>3, <3>1 DEF l
    <3>3. k - kept <= b /\ k - kept \in 1 .. b + Len(screen)
      BY <1>1, <3>1
    <3>4. shown[k - kept] = back[k - kept]
      BY <1>6, <1>8, <3>1, <3>3
    <3> QED
      BY <1>4, <3>1, <3>2, <3>4
  <2>4. CASE k > l
    <3>1. /\ k - kept \in 1 .. m /\ k \in 1 .. kept + m /\ ~(k <= kept) /\ ~(k <= l)
          /\ ~(k - kept <= b) /\ (k - kept) - b = k - l /\ k - l \in 1 .. n
      BY <2>1, <2>4
    <3>2. left[k] = shown[k - kept] /\ right[k] = all[k - l]
      BY <1>9, <1>10, <2>1, <3>1 DEF l
    <3>3. k - kept \in 1 .. b + Len(screen)
      BY <1>1, <2>1, <3>1
    <3>4. shown[k - kept] = screen[k - l]
      BY <1>6, <1>8, <3>1, <3>3
    <3> QED
      BY <1>5, <3>1, <3>2, <3>4
  <2> QED
    BY <2>1, <2>2, <2>3, <2>4
<1>12. left = right
  BY <1>2, <1>9, <1>10, <1>11, SeqEqual
<1> QED
  BY <1>12 DEF Text, left, right, shown, whole, some, older, back, all, kept, m

LEMMA GrownFacts ==
    ASSUME NEW t, Half(t), NEW rows \in Nat \ {0, 1}, t.rows <= rows
    PROVE  /\ Half(Grown(t, rows))
           /\ Grown(t, rows).rows = rows
           /\ Grown(t, rows).alt_which = t.alt_which
           /\ MainText(Grown(t, rows)) = MainText(t)
<1> DEFINE added == Max({0, rows - t.rows})
           back == Min({added, t.tempsblines})
           more == added - back
           blank == Blanks(more)
           kept == Len(t.scrollback) - back
           top == LastN(t.scrollback, back)
           scr == Cat(Cat(top, t.screen), blank)
           sb == SubSeq(t.scrollback, 1, kept)
           temp == t.tempsblines - back
           y == t.curs.y + back
           c == [t.curs EXCEPT !.y = y]
           sy == t.save.curs.y + back
           s == [t.save EXCEPT !.curs.y = sy]
           n == t.rows + added
           u == [t EXCEPT !.screen = scr, !.scrollback = sb, !.tempsblines = temp,
                          !.curs = c, !.save = s, !.rows = n]
<1>1. HalfFields(t) /\ t \in Terminals /\ Restorable(t)
  BY HalfHere DEF Half
<1>a. /\ t.rows \in Nat \ {0, 1} /\ t.curs.y \in Nat /\ t.curs.y < t.rows
      /\ t.curs.x < t.cols /\ Len(t.screen) = t.rows
      /\ t.tempsblines \in Nat /\ t.save.curs.y \in Int
      /\ Len(t.scrollback) \in Nat /\ t.tempsblines <= Len(t.scrollback)
      /\ t.scrollback \in Seq(Rows) /\ t.screen \in Seq(Rows) /\ t.screen \in Seq(CleanRows)
  BY <1>1 DEF HalfFields
<1>2. Grown(t, rows) = u
  <2> HIDE DEF c, s
  <2>1. Grown(t, rows) = [t EXCEPT !.screen = top \o t.screen \o blank,
                                   !.scrollback = sb, !.tempsblines = temp,
                                   !.curs = c, !.save = s, !.rows = n]
    BY Zenon DEF Grown, c, s
  <2> QED
    BY <2>1, Zenon DEF Cat
<1>3. /\ added \in Nat /\ t.rows + added = rows
  <2> DEFINE d == rows - t.rows
  <2>1. d \in Nat /\ t.rows + d = rows
    BY <1>a
  <2>2. Max({0, d}) = d
    <3> HIDE DEF d
    <3> QED
      BY <2>1, MinMax
  <2> QED
    BY <2>1, <2>2
<1> HIDE DEF added
<1>4. back \in Nat /\ back <= added /\ back <= t.tempsblines
  <2>1. back = IF added <= t.tempsblines THEN added ELSE t.tempsblines
    BY <1>3, <1>a, MinMax
  <2> QED
    BY <1>3, <1>a, <2>1
<1> HIDE DEF back
<1>5. /\ more \in Nat /\ back + more = added
      /\ kept \in Nat /\ kept <= Len(t.scrollback) /\ back <= Len(t.scrollback)
      /\ kept + back = Len(t.scrollback)
      /\ temp \in Nat /\ temp <= kept /\ kept - temp = Len(t.scrollback) - t.tempsblines
      /\ y \in Nat /\ y < rows /\ y + 1 = (t.curs.y + 1) + back
      /\ sy \in Int /\ n = rows /\ back + t.rows + more = rows
  <2> DEFINE old == t.rows
             y0 == t.curs.y
             sy0 == t.save.curs.y
             temp0 == t.tempsblines
             l == Len(t.scrollback)
  <2>1. /\ old \in Nat \ {0, 1} /\ y0 \in Nat /\ y0 < old /\ sy0 \in Int /\ temp0 \in Nat
        /\ l \in Nat /\ temp0 <= l /\ added \in Nat /\ back \in Nat /\ back <= added
        /\ back <= temp0 /\ old + added = rows
    BY <1>3, <1>4, <1>a
  <2> HIDE DEF old, y0, sy0, temp0, l
  <2>2. /\ added - back \in Nat /\ back + (added - back) = added
        /\ l - back \in Nat /\ l - back <= l /\ back <= l /\ (l - back) + back = l
        /\ temp0 - back \in Nat /\ temp0 - back <= l - back
        /\ (l - back) - (temp0 - back) = l - temp0
        /\ y0 + back \in Nat /\ y0 + back < rows /\ y0 + back + 1 = (y0 + 1) + back
        /\ sy0 + back \in Int /\ old + added = rows /\ back + old + (added - back) = rows
    BY <2>1
  <2> QED
    BY <2>2 DEF old, y0, sy0, temp0, l
<1>6. /\ top \in Seq(CleanRows) /\ Len(top) = back
  <2>1. /\ top \in Seq(Rows) /\ Len(top) = IF back <= Len(t.scrollback) THEN back
                                          ELSE Len(t.scrollback)
        /\ \A k \in 1 .. Len(top) : top[k] = t.scrollback[Len(t.scrollback) - Len(top) + k]
    BY <1>4, <1>a, LastNFacts
  <2> HIDE DEF top
  <2>2. Len(top) = back
    BY <1>5, <2>1
  <2>3. ASSUME NEW k \in 1 .. Len(top) PROVE top[k] \in CleanRows
    <3> DEFINE l == Len(t.scrollback)
               i == l - back + k
    <3>1. l \in Nat /\ back \in Nat /\ back <= l /\ back <= t.tempsblines /\ k \in 1 .. back
          /\ t.tempsblines \in Nat
      BY <1>4, <1>5, <1>a, <2>2
    <3>2. top[k] = t.scrollback[i]
      BY <2>1, <2>2
    <3> HIDE DEF l
    <3>3. i \in 1 .. l /\ i > l - t.tempsblines
      <4> DEFINE temp0 == t.tempsblines
      <4>1. temp0 \in Nat /\ back <= temp0
        BY <3>1
      <4> HIDE DEF temp0
      <4>2. i \in 1 .. l /\ i > l - temp0
        BY <3>1, <4>1
      <4> QED
        BY <4>2 DEF temp0
    <3> HIDE DEF i
    <3>4. t.scrollback[i] \in CleanRows
      BY <1>1, <3>3 DEF Restorable, l
    <3> QED
      BY <3>2, <3>4
  <2> QED
    BY <2>1, <2>2, <2>3, Cleaned
<1> HIDE DEF top
<1>7. blank \in Seq(CleanRows) /\ Len(blank) = more
  <2> HIDE DEF more
  <2> QED
    BY <1>5, BlanksFacts
<1> HIDE DEF blank
<1>8. scr \in Seq(CleanRows) /\ Len(scr) = rows
  <2> DEFINE first == Cat(top, t.screen)
  <2>1. first \in Seq(CleanRows) /\ Len(first) = Len(top) + Len(t.screen)
    <3>1. top \in Seq(CleanRows) /\ t.screen \in Seq(CleanRows)
      BY <1>6, <1>a
    <3> QED
      BY <3>1, CatFacts
  <2> HIDE DEF first
  <2>2. Cat(first, blank) \in Seq(CleanRows) /\ Len(Cat(first, blank)) = Len(first) + Len(blank)
    BY <1>7, <2>1, CatFacts
  <2>3. Len(first) + Len(blank) = rows
    BY <1>5, <1>6, <1>7, <1>a, <2>1
  <2> QED
    BY <2>2, <2>3 DEF first
<1>9. /\ sb \in Seq(Rows) /\ Len(sb) = kept
      /\ \A k \in 1 .. kept : sb[k] = t.scrollback[k]
  <2>1. 1 \in Nat \ {0} /\ kept \in Int /\ kept \in Nat /\ kept <= Len(t.scrollback)
    BY <1>5
  <2> HIDE DEF kept
  <2>2. /\ sb \in Seq(Rows) /\ Len(sb) = IF 1 <= kept THEN kept - 1 + 1 ELSE 0
        /\ \A k \in 1 .. kept - 1 + 1 : sb[k] = t.scrollback[1 + k - 1]
    BY <1>a, <2>1, SubSeqFacts
  <2> HIDE DEF sb
  <2> QED
    BY <2>1, <2>2
<1>10. c \in Points /\ c.x = t.curs.x /\ c.y = y /\ s \in Saves
  <2>1. c \in Points /\ c.x = t.curs.x /\ c.y = y
    <3> HIDE DEF y
    <3> QED
      BY <1>1, <1>5 DEF HalfFields, Points
  <2>2. s \in Saves
    <3> HIDE DEF sy
    <3> QED
      BY <1>1, <1>5 DEF HalfFields, Saves, SavedPoints
  <2> QED
    BY <2>1, <2>2
<1>11. /\ u \in Terminals /\ u.screen = scr /\ u.rows = rows /\ u.cols = t.cols
       /\ u.scrollback = sb /\ u.tempsblines = temp /\ u.curs = c
       /\ u.alt_which = t.alt_which /\ u.alt_save = t.alt_save
  <2>1. n = rows /\ temp \in Nat
    BY <1>5
  <2> HIDE DEF scr, n, sb, temp, c, s
  <2> QED
    BY <1>1, <1>8, <1>9, <1>10, <2>1 DEF Terminals
<1> HIDE DEF u
<1>12. Restorable(u)
  <2> SUFFICES ASSUME NEW i \in 1 .. Len(sb), i > Len(sb) - temp
               PROVE  sb[i] \in CleanRows
    BY <1>11, Zenon DEF Restorable
  <2>1. i \in 1 .. kept /\ i > kept - temp
    BY <1>9
  <2>2. kept \in Nat /\ kept <= Len(t.scrollback) /\ Len(t.scrollback) \in Nat
        /\ kept - temp = Len(t.scrollback) - t.tempsblines
    BY <1>5, <1>a
  <2> HIDE DEF kept, temp
  <2>3. i \in 1 .. Len(t.scrollback) /\ i > Len(t.scrollback) - t.tempsblines
    BY <2>1, <2>2
  <2>4. t.scrollback[i] \in CleanRows
    BY <1>1, <2>3 DEF Restorable
  <2> QED
    BY <1>9, <2>1, <2>4
<1>13. Half(u)
  <2>1. temp <= Len(sb) /\ c.x < t.cols /\ c.y < rows
    <3> HIDE DEF sb, y, c, temp, kept
    <3> QED
      BY <1>5, <1>9, <1>10, <1>a
  <2> HIDE DEF scr, n, sb, temp, c
  <2> QED
    BY <1>8, <1>11, <1>12, <2>1 DEF Half, Fits
<1>14. MainText(u) = MainText(t)
  <2> DEFINE k == t.curs.y + 1
  <2>0. y + 1 = k + back
    BY <1>5, Zenon
  <2>1. /\ t.scrollback \in Seq(Rows) /\ t.screen \in Seq(Rows)
        /\ k \in Nat /\ k <= Len(t.screen)
    BY <1>a
  <2>2. blank \in Seq(Rows) /\ back \in Nat /\ back <= Len(t.scrollback)
    BY <1>4, <1>5, <1>7, RowTypes
  <2> HIDE DEF k
  <2>3. Text(SubSeq(t.scrollback, 1, Len(t.scrollback) - back),
             Cat(Cat(LastN(t.scrollback, back), t.screen), blank), k + back)
           = Text(t.scrollback, t.screen, k)
    BY <2>1, <2>2, BackText, SMTT(40)
  <2>4. u.curs.y + 1 = k + back
    <3> HIDE DEF y, c
    <3> QED
      BY <1>10, <1>11, <2>0
  <2>5. MainText(u) = Text(sb, scr, k + back)
    BY <1>11, <2>4, Zenon DEF MainText
  <2> QED
    BY <2>3, <2>5, Zenon DEF MainText, k, top
<1> QED
  BY <1>2, <1>11, <1>13, <1>14

LEMMA SuffixIs ==
    ASSUME NEW a \in Seq(Rows), NEW b \in Seq(Rows), Len(a) <= Len(b),
           \A i \in 1 .. Len(a) : a[i] = b[Len(b) - Len(a) + i]
    PROVE  IsSuffix(a, b)
<1> DEFINE m == Len(a)
           n == Len(b)
           ra == Reverse(a)
           rb == Reverse(b)
<1>1. m \in Nat /\ n \in Nat /\ m <= n
  BY LenProperties
<1>2. \A i \in 1 .. m : a[i] = b[n - m + i]
  OBVIOUS
<1>3. ASSUME NEW c \in Seq(Rows)
      PROVE  /\ Reverse(c) \in Seq(Rows) /\ Len(Reverse(c)) = Len(c)
             /\ \A i \in 1 .. Len(c) : Reverse(c)[i] = c[(Len(c) - i) + 1]
  <2> DEFINE l == Len(c)
             f == [i \in 1 .. l |-> c[(l - i) + 1]]
  <2>1. l \in Nat /\ \A i \in 1 .. l : c[i] \in Rows
    BY LenProperties, ElementOfSeq
  <2>2. Reverse(c) = f
    BY Zenon DEF Reverse
  <2> HIDE DEF l
  <2>3. \A i \in 1 .. l : (l - i) + 1 \in 1 .. l
    BY <2>1
  <2>4. f \in [1 .. l -> Rows]
    BY <2>1, <2>3
  <2>5. f \in Seq(Rows)
    BY <2>1, <2>4, SeqDef
  <2>6. Len(f) \in Nat /\ DOMAIN f = 1 .. Len(f) /\ DOMAIN f = 1 .. l
    BY <2>5, LenProperties
  <2>7. Len(f) = l
    <3> DEFINE k == Len(f)
    <3>1. k \in Nat /\ 1 .. k = 1 .. l
      BY <2>6
    <3> HIDE DEF k
    <3>2. (k \in 1 .. k \/ k = 0) /\ (l \in 1 .. l \/ l = 0)
      BY <2>1, <3>1
    <3> QED
      BY <2>1, <3>1, <3>2 DEF k
  <2>8. \A i \in 1 .. l : f[i] = c[(l - i) + 1]
    OBVIOUS
  <2> HIDE DEF f
  <2> QED
    BY <2>2, <2>5, <2>7, <2>8 DEF l
<1>4. /\ ra \in Seq(Rows) /\ Len(ra) = m /\ \A i \in 1 .. m : ra[i] = a[(m - i) + 1]
      /\ rb \in Seq(Rows) /\ Len(rb) = n /\ \A i \in 1 .. n : rb[i] = b[(n - i) + 1]
  BY <1>3
<1> HIDE DEF m, n, ra, rb
<1>5. ASSUME NEW i \in 1 .. m PROVE ra[i] = rb[i]
  <2>1. (m - i) + 1 \in 1 .. m /\ i \in 1 .. n
    BY <1>1
  <2>2. n - m + ((m - i) + 1) = (n - i) + 1
    BY <1>1
  <2>3. a[(m - i) + 1] = b[n - m + ((m - i) + 1)]
    BY <1>2, <2>1
  <2> QED
    BY <1>4, <2>1, <2>2, <2>3
<1> DEFINE sa == SubSeq(ra, 1, m)
           sb == SubSeq(rb, 1, m)
<1>6. /\ sa \in Seq(Rows) /\ Len(sa) = m /\ \A i \in 1 .. m : sa[i] = ra[i]
      /\ sb \in Seq(Rows) /\ Len(sb) = m /\ \A i \in 1 .. m : sb[i] = rb[i]
  <2>1. 1 \in Nat \ {0} /\ m \in Int /\ m <= Len(ra) /\ m <= Len(rb)
        /\ ra \in Seq(Rows) /\ rb \in Seq(Rows)
    BY <1>1, <1>4
  <2>2. /\ sa \in Seq(Rows) /\ Len(sa) = IF 1 <= m THEN m - 1 + 1 ELSE 0
        /\ \A k \in 1 .. m - 1 + 1 : sa[k] = ra[1 + k - 1]
    BY <2>1, SubSeqFacts
  <2>3. /\ sb \in Seq(Rows) /\ Len(sb) = IF 1 <= m THEN m - 1 + 1 ELSE 0
        /\ \A k \in 1 .. m - 1 + 1 : sb[k] = rb[1 + k - 1]
    BY <2>1, SubSeqFacts
  <2> HIDE DEF sa, sb
  <2> QED
    BY <1>1, <2>2, <2>3
<1> HIDE DEF sa, sb
<1>7. sa = sb
  BY <1>5, <1>6, SeqEqual
<1>8. Len(ra) <= Len(rb) /\ SubSeq(ra, 1, Len(ra)) = SubSeq(rb, 1, Len(ra))
  BY <1>1, <1>4, <1>7 DEF sa, sb
<1> QED
  BY <1>8, Zenon DEF IsSuffix, IsPrefix, ra, rb

(* When only the oldest lines of the scrollback go, the text is a suffix.   *)
LEMMA OldestGo ==
    ASSUME NEW s \in Seq(Rows), NEW p \in Seq(Rows), NEW limit \in Nat
    PROVE  /\ IsSuffix(Cat(LastN(s, limit), p), Cat(s, p))
           /\ \/ Len(Cat(LastN(s, limit), p)) = Len(Cat(s, p))
              \/ Len(LastN(s, limit)) = limit
<1> DEFINE r == LastN(s, limit)
           a == Cat(r, p)
           b == Cat(s, p)
           l == Len(s)
           m == Len(r)
           n == Len(p)
<1>1. l \in Nat /\ n \in Nat
  BY LenProperties
<1>2. /\ r \in Seq(Rows) /\ m = (IF limit <= l THEN limit ELSE l)
      /\ \A k \in 1 .. m : r[k] = s[l - m + k]
  BY LastNFacts
<1> HIDE DEF r
<1>3. /\ a \in Seq(Rows) /\ Len(a) = m + n
      /\ \A k \in 1 .. m + n : a[k] = IF k <= m THEN r[k] ELSE p[k - m]
      /\ b \in Seq(Rows) /\ Len(b) = l + n
      /\ \A k \in 1 .. l + n : b[k] = IF k <= l THEN s[k] ELSE p[k - l]
  BY <1>2, CatRows
<1> HIDE DEF a, b, l, m, n
<1>4. m \in Nat /\ m <= l
  BY <1>1, <1>2
<1>5. ASSUME NEW i \in 1 .. Len(a) PROVE a[i] = b[Len(b) - Len(a) + i]
  <2> DEFINE j == l - m + i
  <2>1. i \in 1 .. m + n /\ j \in 1 .. l + n /\ Len(b) - Len(a) + i = j
        /\ (i <= m <=> j <= l) /\ j - l = i - m
    BY <1>1, <1>3, <1>4
  <2>2. ASSUME i <= m PROVE r[i] = s[j]
    <3>1. i \in 1 .. m
      BY <1>1, <1>4, <2>1, <2>2
    <3> QED
      BY <1>2, <3>1
  <2> HIDE DEF j
  <2>3. a[i] = IF i <= m THEN r[i] ELSE p[i - m]
    BY <1>3, <2>1
  <2>4. b[j] = IF j <= l THEN s[j] ELSE p[j - l]
    BY <1>3, <2>1
  <2> QED
    BY <2>1, <2>2, <2>3, <2>4
<1>6. Len(a) <= Len(b)
  BY <1>1, <1>3, <1>4
<1>7. IsSuffix(a, b)
  BY <1>3, <1>5, <1>6, SuffixIs
<1>8. Len(a) = Len(b) \/ m = limit
  BY <1>1, <1>2, <1>3
<1> QED
  BY <1>7, <1>8 DEF a, b, m, r

LEMMA FittedFacts ==
    ASSUME cfg \in Configs, NEW t, Half(t), NEW rows \in Nat \ {0, 1},
           NEW cols \in Nat \ {0, 1}, t.rows = rows
    PROVE  /\ Fine(Fitted(t, rows, cols))
           /\ Fitted(t, rows, cols).rows = rows /\ Fitted(t, rows, cols).cols = cols
           /\ Fitted(t, rows, cols).disptop = 0
           /\ Fitted(t, rows, cols).alt_which = t.alt_which
           /\ IsSuffix(MainText(Fitted(t, rows, cols)), MainText(t))
           /\ \/ Len(MainText(Fitted(t, rows, cols))) = Len(MainText(t))
              \/ Len(Fitted(t, rows, cols).scrollback) = cfg.savelines
<1> DEFINE b == rows - 1
           sb == LastN(t.scrollback, cfg.savelines)
           temp == Min({t.tempsblines, Len(sb)})
           blank == Blanks(rows)
           m == [t.mode EXCEPT !.t = 0, !.b = b, !.wnext = FALSE]
           am == [t.alt_mode EXCEPT !.t = 0, !.b = b, !.wnext = FALSE]
           sy == Clip(t.save.curs.y, 0, b)
           s == [t.save EXCEPT !.curs.y = sy]
           x == Min({t.curs.x, cols - 1})
           y == Clip(t.curs.y, 0, b)
           c == [x |-> x, y |-> y]
           u == [t EXCEPT !.cols = cols, !.scrollback = sb, !.tempsblines = temp,
                          !.disptop = 0, !.alt_screen = blank, !.alt_sblines = 0,
                          !.mode = m, !.alt_mode = am, !.save = s, !.curs = c,
                          !.alt_curs = Home]
<1>1. HalfFields(t) /\ t \in Terminals /\ Restorable(t) /\ t.alt_save.curs.y >= 0
  BY HalfHere DEF Half
<1>a. /\ t.curs.x \in Nat /\ t.curs.y \in Nat /\ t.curs.y < rows
      /\ Len(t.screen) = rows /\ t.tempsblines \in Nat /\ t.save.curs.y \in Int
      /\ Len(t.scrollback) \in Nat /\ t.tempsblines <= Len(t.scrollback)
      /\ t.scrollback \in Seq(Rows) /\ t.screen \in Seq(Rows) /\ t.screen \in Seq(CleanRows)
      /\ cfg.savelines \in Nat
  BY <1>1, CfgFacts DEF HalfFields
<1>2. Fitted(t, rows, cols) = u
  BY ZenonT(60) DEF Fitted
<1>3. b \in Nat /\ 0 < b /\ b < rows /\ 0 <= b
  OBVIOUS
<1>4. m \in ModeStates /\ m.t = 0 /\ m.b = b /\ am \in ModeStates /\ am.t = 0 /\ am.b = b
  <2>1. t.mode \in ModeStates /\ t.alt_mode \in ModeStates
    BY <1>1 DEF Terminals
  <2> HIDE DEF b
  <2> QED
    BY <1>3, <2>1 DEF ModeStates
<1>5. sy \in 0 .. b /\ y = t.curs.y
  <2> DEFINE y0 == t.curs.y
             sy0 == t.save.curs.y
  <2>1. y0 \in Nat /\ y0 < rows /\ sy0 \in Int /\ 0 \in Int /\ b \in Int /\ 0 <= b
    BY <1>3, <1>a
  <2>2. y0 \in 0 .. b /\ y0 \in Int
    <3> HIDE DEF y0
    <3> QED
      BY <2>1
  <2> HIDE DEF y0, sy0, b
  <2>3. Clip(sy0, 0, b) \in 0 .. b /\ Clip(y0, 0, b) = y0
    BY <2>1, <2>2, ClipFacts
  <2> QED
    BY <2>3, Zenon DEF y0, sy0
<1>6. x \in Nat /\ x < cols
  <2> DEFINE d == cols - 1
             x0 == t.curs.x
  <2>1. d \in Nat /\ d < cols
    OBVIOUS
  <2>a. x0 \in Nat
    BY <1>a
  <2> HIDE DEF d, x0
  <2>2. Min({x0, d}) = IF x0 <= d THEN x0 ELSE d
    <3>1. x0 \in Int /\ d \in Int
      BY <2>1, <2>a
    <3> QED
      BY <3>1, MinMax
  <2>3. Min({x0, d}) \in Nat /\ Min({x0, d}) < cols
    BY <2>1, <2>a, <2>2
  <2> QED
    BY <2>3 DEF d, x0
<1> HIDE DEF x, y, sy, b
<1>7. /\ c \in Points /\ c.x = x /\ c.y = t.curs.y
      /\ s \in Saves /\ s.curs.y = sy /\ sy >= 0
  <2>1. c \in Points /\ c.x = x /\ c.y = t.curs.y
    BY <1>5, <1>6, <1>a DEF Points
  <2>2. sy \in Int /\ sy >= 0
    BY <1>3, <1>5
  <2>3. s \in Saves /\ s.curs.y = sy
    BY <1>1, <2>2 DEF HalfFields, Saves, SavedPoints
  <2> QED
    BY <2>1, <2>2, <2>3
<1>8. blank \in Seq(CleanRows) /\ Len(blank) = rows
  BY BlanksFacts
<1>9. /\ sb \in Seq(Rows) /\ Len(sb) \in Nat
      /\ Len(sb) = IF cfg.savelines <= Len(t.scrollback) THEN cfg.savelines
                   ELSE Len(t.scrollback)
      /\ \A k \in 1 .. Len(sb) : sb[k] = t.scrollback[Len(t.scrollback) - Len(sb) + k]
  <2>1. /\ sb \in Seq(Rows)
        /\ Len(sb) = IF cfg.savelines <= Len(t.scrollback) THEN cfg.savelines
                     ELSE Len(t.scrollback)
        /\ \A k \in 1 .. Len(sb) : sb[k] = t.scrollback[Len(t.scrollback) - Len(sb) + k]
    BY <1>a, LastNFacts, ZenonT(60)
  <2> HIDE DEF sb
  <2> QED
    BY <1>a, <2>1
<1> HIDE DEF blank, m, am, c, s
<1> DEFINE len == Len(sb)
           l == Len(t.scrollback)
           temp0 == t.tempsblines
<1>10. /\ len \in Nat /\ l \in Nat /\ temp0 \in Nat /\ temp0 <= l /\ len <= l
       /\ len <= cfg.savelines
  BY <1>9, <1>a
<1>11. temp \in Nat /\ temp <= len /\ temp <= temp0
  <2>1. temp = IF temp0 <= len THEN temp0 ELSE len
    <3> HIDE DEF len, temp0
    <3>1. Min({temp0, len}) = IF temp0 <= len THEN temp0 ELSE len
      BY <1>10, MinMax
    <3> QED
      BY <3>1, Zenon DEF temp0, len
  <2> HIDE DEF temp, len, temp0
  <2> QED
    BY <1>10, <2>1
<1> HIDE DEF sb, temp
<1>12. Home \in Points /\ Home.x = 0 /\ Home.y = 0
  BY DEF Home, Points
<1>13. /\ u \in Terminals /\ u.screen = t.screen /\ u.alt_screen = blank /\ u.rows = rows
       /\ u.cols = cols /\ u.scrollback = sb /\ u.tempsblines = temp /\ u.disptop = 0
       /\ u.curs = c /\ u.alt_curs = Home /\ u.mode = m /\ u.alt_mode = am
       /\ u.save = s /\ u.alt_save = t.alt_save /\ u.alt_which = t.alt_which
  <2> DEFINE zero == 0
  <2>1. zero \in Nat /\ zero \in Int /\ zero = 0
    OBVIOUS
  <2>2. u = [t EXCEPT !.cols = cols, !.scrollback = sb, !.tempsblines = temp,
                      !.disptop = zero, !.alt_screen = blank, !.alt_sblines = zero,
                      !.mode = m, !.alt_mode = am, !.save = s, !.curs = c,
                      !.alt_curs = Home]
    BY Zenon
  <2> HIDE DEF zero, u
  <2> QED
    BY <1>1, <1>4, <1>7, <1>8, <1>9, <1>11, <1>12, <2>1, <2>2 DEF Terminals
<1> HIDE DEF u
<1>14. Restorable(u)
  <2> SUFFICES ASSUME NEW i \in 1 .. Len(sb), i > Len(sb) - temp
               PROVE  sb[i] \in CleanRows
    BY <1>13, Zenon DEF Restorable
  <2>1. i \in 1 .. len /\ i > len - temp
    OBVIOUS
  <2> DEFINE j == l - len + i
  <2>2. sb[i] = t.scrollback[j]
    BY <1>9
  <2> HIDE DEF len, l, temp0
  <2>3. j \in 1 .. l /\ j > l - temp0
    BY <1>10, <1>11, <2>1
  <2> HIDE DEF j
  <2>4. t.scrollback[j] \in CleanRows
    BY <1>1, <2>3 DEF Restorable, l, temp0
  <2> QED
    BY <2>2, <2>4
<1>15. Sound(u)
  <2>1. Fits(u, u.curs)
    BY <1>6, <1>7, <1>13, <1>a DEF Fits
  <2>2. Fits(u, u.alt_curs)
    BY <1>12, <1>13 DEF Fits
  <2>3. Region(u, u.mode) /\ Region(u, u.alt_mode)
    BY <1>3, <1>4, <1>13 DEF Region
  <2>4. u.save.curs.y >= 0 /\ u.alt_save.curs.y >= 0
    BY <1>1, <1>7, <1>13
  <2>5. u.tempsblines <= Len(u.scrollback) /\ Len(u.scrollback) <= cfg.savelines
    BY <1>10, <1>11, <1>13
  <2>6. u.rows # 1 /\ Len(u.screen) = u.rows /\ Len(u.alt_screen) = u.rows
    BY <1>8, <1>13, <1>a
  <2> QED
    BY <1>13, <2>1, <2>2, <2>3, <2>4, <2>5, <2>6 DEF Sound
<1>16. /\ IsSuffix(MainText(u), MainText(t))
       /\ Len(MainText(u)) = Len(MainText(t)) \/ Len(u.scrollback) = cfg.savelines
  <2> DEFINE n == t.curs.y + 1
             p == SubSeq(t.screen, 1, n)
  <2>1. n \in Int /\ n <= Len(t.screen) /\ 1 \in Nat \ {0}
    BY <1>a
  <2> HIDE DEF n
  <2>2. p \in Seq(Rows)
    BY <1>a, <2>1, SubSeqFacts
  <2>3. u.curs.y + 1 = n
    BY <1>7, <1>13 DEF n
  <2>4. MainText(u) = Cat(LastN(t.scrollback, cfg.savelines), p)
    BY <1>13, <2>3, Zenon DEF MainText, Text, sb
  <2>5. MainText(t) = Cat(t.scrollback, p)
    BY Zenon DEF MainText, Text, n
  <2> HIDE DEF p
  <2>6. /\ IsSuffix(Cat(LastN(t.scrollback, cfg.savelines), p), Cat(t.scrollback, p))
        /\ \/ Len(Cat(LastN(t.scrollback, cfg.savelines), p)) = Len(Cat(t.scrollback, p))
           \/ Len(LastN(t.scrollback, cfg.savelines)) = cfg.savelines
    <3>1. t.scrollback \in Seq(Rows) /\ cfg.savelines \in Nat
      BY <1>a
    <3> QED
      BY <2>2, <3>1, OldestGo
  <2> QED
    BY <1>13, <2>4, <2>5, <2>6, Zenon DEF sb
<1> QED
  BY <1>2, <1>13, <1>14, <1>15, <1>16 DEF Fine

(* What switching the screen leaves in place, as seen from the main screen. *)
LEMMA SwapText ==
    ASSUME NEW t, t \in Terminals, NEW which \in {0, 1}
    PROVE  LET u == SwapScreen(t, which, FALSE, FALSE)
           IN  UpToCursor(u) = UpToCursor(t) /\ u.scrollback = t.scrollback
<1> DEFINE cross == [t EXCEPT !.alt_which = which,
                           !.screen = t.alt_screen,
                           !.alt_screen = t.screen,
                           !.alt_sblines = Nonempty(t, t.screen),
                           !.curs = t.alt_curs,
                           !.alt_curs = t.curs,
                           !.mode = t.alt_mode,
                           !.alt_mode = t.mode,
                           !.save = t.alt_save,
                           !.alt_save = t.save]
           u == SwapScreen(t, which, FALSE, FALSE)
<1>1. u = IF which = t.alt_which THEN t ELSE cross
  BY DEF SwapScreen
<1>2. /\ cross.screen = t.alt_screen /\ cross.alt_screen = t.screen
      /\ cross.curs = t.alt_curs /\ cross.alt_curs = t.curs
      /\ cross.scrollback = t.scrollback /\ cross.alt_which = which
  BY DEF Terminals
<1>3. t.alt_which \in {0, 1}
  BY DEF Terminals
<1> HIDE DEF cross, u
<1>4. UpToCursor(u) = UpToCursor(t) /\ u.scrollback = t.scrollback
  <2>1. CASE which = t.alt_which
    BY <1>1, <2>1
  <2>2. CASE which # t.alt_which
    BY <1>1, <1>2, <1>3, <2>2 DEF UpToCursor
  <2> QED
    BY <2>1, <2>2
<1> QED
  BY <1>4 DEF u

LEMMA ResizedFacts ==
    ASSUME cfg \in Configs, NEW t, Fine(t), NEW rows \in Nat \ {0, 1},
           NEW cols \in Nat \ {0, 1}
    PROVE  /\ Fine(Resized(t, rows, cols)) /\ Seen(Resized(t, rows, cols))
           /\ Resized(t, rows, cols).rows = rows /\ Resized(t, rows, cols).cols = cols
           /\ IsSuffix(UpToCursor(Resized(t, rows, cols)), UpToCursor(t))
           /\ \/ Len(UpToCursor(Resized(t, rows, cols))) = Len(UpToCursor(t))
              \/ Len(Resized(t, rows, cols).scrollback) = cfg.savelines
<1> DEFINE main == SwapScreen(t, 0, FALSE, FALSE)
           shrunk == Shrunk(main, rows)
           grown == Grown(shrunk, rows)
           fitted == Fitted(grown, rows, cols)
           u == SwapScreen(fitted, t.alt_which, FALSE, FALSE)
<1>1. Resized(t, rows, cols) = u
  BY Zenon DEF Resized
<1>2. t \in Terminals /\ t.alt_which \in {0, 1} /\ 0 \in {0, 1} /\ FALSE \in BOOLEAN
  BY Here DEF Fine, Fields
<1>3. Fine(main) /\ main.alt_which = 0 /\ main.rows = t.rows
  BY <1>2, SwapScreenOk, Zenon
<1>4. UpToCursor(main) = UpToCursor(t)
  BY <1>2, SwapText, Zenon
<1> HIDE DEF main
<1>5. Half(main)
  BY <1>3 DEF Fine, Sound, Half
<1>6. MainText(main) = UpToCursor(main)
  BY <1>3 DEF MainText, Text, UpToCursor, Cat
<1>7. /\ Half(shrunk) /\ shrunk.rows = IF rows < main.rows THEN rows ELSE main.rows
      /\ shrunk.alt_which = 0 /\ MainText(shrunk) = MainText(main)
  BY <1>3, <1>5, ShrunkFacts
<1> HIDE DEF shrunk
<1>8. shrunk.rows <= rows
  BY <1>5, <1>7, HalfHere DEF HalfFields
<1>9. /\ Half(grown) /\ grown.rows = rows
      /\ grown.alt_which = 0 /\ MainText(grown) = MainText(shrunk)
  BY <1>7, <1>8, GrownFacts
<1> HIDE DEF grown
<1>10. /\ Fine(fitted) /\ fitted.rows = rows /\ fitted.cols = cols
       /\ fitted.disptop = 0 /\ fitted.alt_which = 0
       /\ IsSuffix(MainText(fitted), MainText(grown))
       /\ \/ Len(MainText(fitted)) = Len(MainText(grown))
          \/ Len(fitted.scrollback) = cfg.savelines
  BY <1>9, FittedFacts
<1> HIDE DEF fitted
<1>11. MainText(fitted) = UpToCursor(fitted)
  BY <1>10 DEF MainText, Text, UpToCursor, Cat
<1>12. /\ Fine(u) /\ u.rows = rows /\ u.cols = cols /\ u.disptop = 0
  <2>1. /\ Fine(u) /\ u.rows = fitted.rows /\ u.cols = fitted.cols
        /\ u.disptop = fitted.disptop
    BY <1>2, <1>10, SwapScreenOk, Zenon
  <2> HIDE DEF u
  <2> QED
    BY <1>10, <2>1
<1>13. UpToCursor(u) = UpToCursor(fitted) /\ u.scrollback = fitted.scrollback
  <2>1. fitted \in Terminals
    BY <1>10 DEF Fine, Sound
  <2> QED
    BY <1>2, <2>1, SwapText, Zenon
<1> HIDE DEF u
<1>14. Seen(u)
  <2>1. SbLines(u) \in Nat
    BY <1>12, SbLinesNat DEF Fine, Sound
  <2> QED
    BY <1>12, <2>1 DEF Seen
<1>15. UpToCursor(t) = MainText(grown) /\ UpToCursor(u) = MainText(fitted)
  BY <1>4, <1>6, <1>7, <1>9, <1>11, <1>13
<1> QED
  BY <1>1, <1>10, <1>12, <1>13, <1>14, <1>15

LEMMA ResizedSteps ==
    ASSUME cfg \in Configs, NEW t, Fine(t), NEW rows \in Nat \ {0, 1},
           NEW cols \in Nat \ {0, 1}, <<rows, cols>> # <<t.rows, t.cols>>
    PROVE  Steps(t, Resized(t, rows, cols))
<1> DEFINE u == Resized(t, rows, cols)
<1>1. /\ Fine(u) /\ Seen(u) /\ u.rows = rows /\ u.cols = cols
      /\ IsSuffix(UpToCursor(u), UpToCursor(t))
      /\ \/ Len(UpToCursor(u)) = Len(UpToCursor(t))
         \/ Len(u.scrollback) = cfg.savelines
  BY ResizedFacts
<1>2. ~(rows = t.rows /\ cols = t.cols)
  OBVIOUS
<1> HIDE DEF u
<1>3. Steps(t, u)
  BY <1>1, <1>2 DEF Steps
<1> QED
  BY <1>3 DEF u

-------------------------------------------------------------------------------
(* The actions.                                                             *)

LEMMA ClearScrollbackSteps ==
    ASSUME cfg \in Configs, NEW t, Fine(t)
    PROVE  Steps(t, ClearScrollback(t))
<1> DEFINE none == <<>>
           zero == 0
           u == ClearScrollback(t)
<1>1. Fields(t) /\ cfg.savelines \in Nat
  BY Here, CfgFacts DEF Fine
<1>2. none \in Seq(Rows) /\ Len(none) = 0 /\ none = <<>> /\ zero \in Nat /\ zero \in Int /\ zero = 0
  BY EmptySeq
<1>3. u = [t EXCEPT !.disptop = zero, !.scrollback = none, !.tempsblines = zero,
                    !.alt_sblines = zero]
  BY Zenon DEF ClearScrollback
<1> HIDE DEF none, zero, u
<1>4. /\ u \in Terminals /\ u.screen = t.screen /\ u.alt_screen = t.alt_screen
      /\ u.rows = t.rows /\ u.cols = t.cols /\ u.scrollback = none
      /\ u.tempsblines = zero /\ u.disptop = zero /\ u.alt_which = t.alt_which
      /\ u.curs = t.curs /\ u.alt_curs = t.alt_curs /\ u.mode = t.mode
      /\ u.alt_mode = t.alt_mode /\ u.save = t.save /\ u.alt_save = t.alt_save
  BY <1>1, <1>2, <1>3 DEF Fields, Terminals
<1>5. Sound(u)
  BY <1>1, <1>2, <1>4 DEF Fine, Sound, Fits, Region
<1>6. Restorable(u)
  BY <1>2, <1>4 DEF Restorable
<1>7. SbLines(u) \in Nat
  BY <1>4, SbLinesNat
<1>8. Seen(u)
  BY <1>2, <1>4, <1>7 DEF Seen
<1>9. Steps(t, u)
  BY <1>2, <1>4, <1>5, <1>6, <1>8 DEF Steps, Fine
<1> QED
  BY <1>9 DEF u

LEMMA LookSteps ==
    ASSUME cfg \in Configs, NEW t, Fine(t), NEW d \in Int, d <= 0, d + SbLines(t) >= 0
    PROVE  Steps(t, [t EXCEPT !.disptop = d])
<1> DEFINE u == [t EXCEPT !.disptop = d]
<1>1. Fields(t)
  BY Here DEF Fine
<1>2. /\ u \in Terminals /\ u.screen = t.screen
      /\ u.rows = t.rows /\ u.cols = t.cols /\ u.alt_screen = t.alt_screen
      /\ u.scrollback = t.scrollback /\ u.tempsblines = t.tempsblines
      /\ u.alt_sblines = t.alt_sblines /\ u.disptop = d
      /\ u.alt_which = t.alt_which /\ u.curs = t.curs /\ u.alt_curs = t.alt_curs
      /\ u.save = t.save /\ u.alt_save = t.alt_save /\ u.mode = t.mode
      /\ u.alt_mode = t.alt_mode
  BY <1>1 DEF Fields, Terminals
<1> HIDE DEF u
<1>3. Sound(u)
  BY <1>2 DEF Fine, Sound, Fits, Region
<1>4. Restorable(u)
  BY <1>2 DEF Fine, Restorable
<1>5. SbLines(u) = SbLines(t)
  BY <1>2 DEF SbLines
<1>6. Steps(t, u)
  BY <1>2, <1>3, <1>4, <1>5 DEF Steps, Fine, Seen
<1> QED
  BY <1>6 DEF u

LEMMA ColumnOk ==
    ASSUME NEW t, Fine(t), NEW x \in 0 .. t.cols - 1
    PROVE  Ok(t, [t EXCEPT !.curs.x = x])
<1> DEFINE c == [t.curs EXCEPT !.x = x]
<1>1. Fields(t)
  BY Here DEF Fine
<1>2. 0 \in 0 .. t.rows - 1
  BY <1>1 DEF Fields
<1>3. c \in Points /\ Fits(t, c)
  BY <1>1, <1>2, CursorAt
<1>4. [t EXCEPT !.curs.x = x] = [t EXCEPT !.curs = c]
  BY Zenon
<1> HIDE DEF c
<1> QED
  BY <1>3, <1>4, CursorOk, Zenon

LEMMA BackspaceOk ==
    ASSUME cfg \in Configs, NEW t, Fine(t)
    PROVE  /\ t.curs.y > 0 => Ok(t, [t EXCEPT !.curs = [x |-> t.cols - 1, y |-> t.curs.y - 1]])
           /\ Ok(t, [t EXCEPT !.mode.wnext = FALSE])
           /\ t.curs.x # 0 => Ok(t, [t EXCEPT !.curs.x = t.curs.x - 1])
<1>1. Fields(t)
  BY Here DEF Fine
<1>2. ASSUME t.curs.y > 0
      PROVE  Ok(t, [t EXCEPT !.curs = [x |-> t.cols - 1, y |-> t.curs.y - 1]])
  <2> DEFINE x == t.cols - 1
             y == t.curs.y - 1
  <2>1. x \in 0 .. t.cols - 1 /\ y \in 0 .. t.rows - 1
    <3> DEFINE y0 == t.curs.y
               rows == t.rows
               cols == t.cols
    <3>1. y0 \in 0 .. rows - 1 /\ y0 > 0 /\ rows \in Nat /\ cols \in Nat \ {0, 1}
      BY <1>1, <1>2 DEF Fields
    <3> HIDE DEF y0, rows, cols
    <3>2. cols - 1 \in 0 .. cols - 1 /\ y0 - 1 \in 0 .. rows - 1
      BY <3>1
    <3> QED
      BY <3>2 DEF y0, rows, cols
  <2> DEFINE c == [x |-> x, y |-> y]
  <2> HIDE DEF x, y
  <2>2. c \in Points /\ Fits(t, c)
    BY <1>1, <2>1, CursorAt
  <2> HIDE DEF c
  <2>3. Ok(t, [t EXCEPT !.curs = c])
    BY <2>2, CursorOk
  <2> QED
    BY <2>3 DEF c, x, y
<1>3. Ok(t, [t EXCEPT !.mode.wnext = FALSE])
  <2> DEFINE no == FALSE
  <2>1. no \in BOOLEAN
    OBVIOUS
  <2> HIDE DEF no
  <2>2. Ok(t, [t EXCEPT !.mode.wnext = no])
    BY <2>1, FlagsOk
  <2> QED
    BY <2>2 DEF no
<1>4. ASSUME t.curs.x # 0 PROVE Ok(t, [t EXCEPT !.curs.x = t.curs.x - 1])
  <2> DEFINE x == t.curs.x - 1
  <2>1. x \in 0 .. t.cols - 1
    <3> DEFINE x0 == t.curs.x
               cols == t.cols
    <3>1. x0 \in 0 .. cols - 1 /\ x0 # 0 /\ cols \in Nat
      BY <1>1, <1>4 DEF Fields
    <3> HIDE DEF x0, cols
    <3>2. x0 - 1 \in 0 .. cols - 1
      BY <3>1
    <3> QED
      BY <3>2 DEF x0, cols
  <2> HIDE DEF x
  <2>2. Ok(t, [t EXCEPT !.curs.x = x])
    BY <2>1, ColumnOk
  <2> QED
    BY <2>2 DEF x
<1> QED
  BY <1>2, <1>3, <1>4

(* The cursor stays in its column, or goes to the first one. *)
LEMMA ThenReturnedOk ==
    ASSUME NEW t, Fine(t), NEW u, Ok(t, u), NEW x \in {0, t.curs.x}
    PROVE  Ok(t, ReturnedTo(u, x))
<1>1. Fields(t) /\ Fine(u) /\ u.cols = t.cols
  BY Here DEF Fine, Ok, Within
<1>2. x \in 0 .. u.cols - 1
  BY <1>1 DEF Fields
<1>3. Ok(u, ReturnedTo(u, x))
  BY <1>1, <1>2, ReturnedToOk
<1> QED
  BY <1>3, OkChains

(* Each action keeps to Steps.                                              *)
LEMMA DoneOk ==
    ASSUME InOrder, NEW u, Ok(term, u), Done(u)
    PROVE  Steps(term, term')
<1>1. Steps(term, u)
  BY OkSteps DEF InOrder
<1>2. term' = u
  BY DEF Done
<1> QED
  BY <1>1, <1>2

LEMMA DoneSteps ==
    ASSUME NEW u, Steps(term, u), Done(u)
    PROVE  Steps(term, term')
<1>1. term' = u
  BY DEF Done
<1> QED
  BY <1>1

LEMMA GraphicSteps ==
    ASSUME InOrder, Graphic
    PROVE  Steps(term, term')
<1>1. PICK text \in Texts, width \in {1, 2} : Done(Written(term, text, width))
  BY DEF Graphic
<1>2. text \in Nat
  BY TerminalAssumption DEF TerminalAssumption
<1>3. Ok(term, Written(term, text, width))
  BY <1>2, WrittenOk DEF InOrder
<1> QED
  BY <1>1, <1>3, DoneOk

LEMMA BackspaceSteps ==
    ASSUME InOrder, Backspace
    PROVE  Steps(term, term')
<1> DEFINE a == [term EXCEPT !.curs = [x |-> term.cols - 1, y |-> term.curs.y - 1]]
           b == [term EXCEPT !.mode.wnext = FALSE]
           c == [term EXCEPT !.curs.x = term.curs.x - 1]
<1>0. term.curs.y >= 0
  BY Here DEF InOrder, Fine, Fields
<1>1. \/ term.curs.y > 0 /\ Done(a)
      \/ Done(b)
      \/ term.curs.x # 0 /\ Done(c)
  BY <1>0, Zenon DEF Backspace
<1>2. /\ term.curs.y > 0 => Ok(term, a)
      /\ Ok(term, b)
      /\ term.curs.x # 0 => Ok(term, c)
  BY BackspaceOk DEF InOrder
<1> HIDE DEF a, b, c
<1>3. Done(a) /\ Ok(term, a) => Steps(term, term')
  BY DoneOk
<1>4. Done(b) /\ Ok(term, b) => Steps(term, term')
  BY DoneOk
<1>5. Done(c) /\ Ok(term, c) => Steps(term, term')
  BY DoneOk
<1> QED
  BY <1>1, <1>2, <1>3, <1>4, <1>5

LEMMA DeleteSteps ==
    ASSUME InOrder, Delete
    PROVE  Steps(term, term')
<1> DEFINE x == IF term.mode.wnext \/ term.curs.x = 0 THEN term.curs.x ELSE term.curs.x - 1
           left == ReturnedTo(term, x)
           put == PutRow(left, x, Row(Blank))
<1>1. Done(left) \/ Done(put)
  BY DEF Delete
<1>2. x \in 0 .. term.cols - 1
  <2> DEFINE x0 == term.curs.x
             cols == term.cols
  <2>1. x0 \in 0 .. cols - 1 /\ cols \in Nat
    BY Here DEF InOrder, Fine, Fields
  <2> HIDE DEF x0, cols
  <2>2. x0 # 0 => x0 - 1 \in 0 .. cols - 1
    BY <2>1
  <2> QED
    BY <2>1, <2>2 DEF x0, cols
<1> HIDE DEF x
<1>3. Ok(term, left) /\ Fine(left)
  <2>1. Ok(term, left)
    BY <1>2, ReturnedToOk DEF InOrder
  <2> QED
    BY <2>1 DEF Ok
<1>4. x \in Nat /\ Row(Blank) \in CleanRows
  BY <1>2, RowTypes DEF Blank
<1> HIDE DEF left
<1>5. Ok(left, put)
  BY <1>3, <1>4, PutRowOk DEF InOrder
<1> HIDE DEF put
<1>6. Ok(term, put)
  BY <1>3, <1>5, OkChains
<1>7. Done(left) => Steps(term, term')
  BY <1>3, DoneOk
<1>8. Done(put) => Steps(term, term')
  BY <1>6, DoneOk
<1> QED
  BY <1>1, <1>7, <1>8

LEMMA CarriageReturnSteps ==
    ASSUME InOrder, CarriageReturn
    PROVE  Steps(term, term')
<1>1. Done(ReturnedTo(term, 0))
  BY DEF CarriageReturn
<1>2. 0 \in 0 .. term.cols - 1
  BY Here DEF InOrder, Fine, Fields
<1>3. Ok(term, ReturnedTo(term, 0))
  BY <1>2, ReturnedToOk DEF InOrder
<1> QED
  BY <1>1, <1>3, DoneOk

LEMMA LineFeedSteps ==
    ASSUME InOrder, LineFeed
    PROVE  Steps(term, term')
<1>1. PICK x \in {0, term.curs.x} : Done(ReturnedTo(NextRow(term), x))
  BY DEF LineFeed
<1>2. Ok(term, NextRow(term))
  BY NextRowOk DEF InOrder
<1>3. Ok(term, ReturnedTo(NextRow(term), x))
  BY <1>2, ThenReturnedOk DEF InOrder
<1> QED
  BY <1>1, <1>3, DoneOk

LEMMA ReverseIndexSteps ==
    ASSUME InOrder, ReverseIndex
    PROVE  Steps(term, term')
<1>1. Done(ReturnedTo(PreviousRow(term), term.curs.x))
  BY DEF ReverseIndex
<1>2. Ok(term, PreviousRow(term))
  BY PreviousRowOk DEF InOrder
<1>3. Ok(term, ReturnedTo(PreviousRow(term), term.curs.x))
  BY <1>2, ThenReturnedOk DEF InOrder
<1> QED
  BY <1>1, <1>3, DoneOk

LEMMA TabSteps ==
    ASSUME InOrder, Tab
    PROVE  Steps(term, term')
<1>0. ~(term.curs.y < 0)
  BY Here DEF InOrder, Fine, Fields
<1>1. PICK x \in 0 .. term.cols - 1 : Done([term EXCEPT !.curs.x = x])
  BY <1>0, Zenon DEF Tab
<1>2. Ok(term, [term EXCEPT !.curs.x = x])
  BY ColumnOk DEF InOrder
<1> QED
  BY <1>1, <1>2, DoneOk

LEMMA FormFeedSteps ==
    ASSUME InOrder, FormFeed
    PROVE  Steps(term, term')
<1> DEFINE t == MoveTo(term, 0, 0, 0)
           u == EraseLots(t, FALSE, TRUE, FALSE)
<1>1. Done([u EXCEPT !.disptop = 0])
  BY Zenon DEF FormFeed
<1>2. Ok(term, t)
  BY MoveToOk DEF InOrder
<1>3. Fine(t) /\ cfg \in Configs /\ TRUE \in BOOLEAN /\ FALSE \in BOOLEAN
  BY <1>2 DEF Ok, InOrder
<1> HIDE DEF t
<1>4. Ok(t, u)
  BY <1>3, EraseLotsOk, Zenon
<1> HIDE DEF u
<1>5. Ok(term, u)
  BY <1>2, <1>4, OkChains
<1>6. Steps(term, [u EXCEPT !.disptop = 0])
  BY <1>3, <1>5, OkBottomSteps
<1> QED
  BY <1>1, <1>6, DoneSteps

LEMMA SaveAndRestoreSteps ==
    ASSUME InOrder, SaveCursor \/ RestoreCursor
    PROVE  Steps(term, term')
<1>1. Done(Save(term)) \/ Done(Restore(term))
  BY DEF SaveCursor, RestoreCursor
<1>2. Ok(term, Save(term)) /\ Ok(term, Restore(term))
  BY SaveOk, RestoreOk DEF InOrder
<1>3. Done(Save(term)) => Steps(term, term')
  BY <1>2, DoneOk
<1>4. Done(Restore(term)) => Steps(term, term')
  BY <1>2, DoneOk
<1> QED
  BY <1>1, <1>3, <1>4

LEMMA ResetSteps ==
    ASSUME InOrder, Reset
    PROVE  Steps(term, term')
<1> DEFINE u == PowerOn(term)
<1>1. Done([u EXCEPT !.disptop = 0])
  BY DEF Reset
<1>2. Fine(u) /\ u.alt_which = 0 /\ u.rows = term.rows
  BY PowerOnOk DEF InOrder
<1> HIDE DEF u
<1>3. Steps(term, [u EXCEPT !.disptop = 0])
  BY <1>2, OtherSteps DEF InOrder
<1> QED
  BY <1>1, <1>3, DoneSteps

LEMMA FillSteps ==
    ASSUME InOrder, Fill
    PROVE  Steps(term, term')
<1>1. PICK text \in Texts :
        Done([term EXCEPT !.screen = [i \in DOMAIN @ |-> Row(text)], !.disptop = 0])
  BY DEF Fill
<1> DEFINE f == [i \in DOMAIN term.screen |-> Row(text)]
           u == [term EXCEPT !.screen = f]
<1>2. text \in Nat
  BY TerminalAssumption DEF TerminalAssumption
<1>3. term.screen \in Seq(CleanRows) /\ Len(term.screen) = term.rows
  BY Here DEF InOrder, Fine, Fields
<1>4. Row(text) \in CleanRows
  BY <1>2, RowTypes
<1>5. DOMAIN term.screen = 1 .. Len(term.screen)
  BY <1>3, LenProperties
<1>6. f \in [1 .. Len(term.screen) -> CleanRows]
  BY <1>4, <1>5
<1>7. [u EXCEPT !.disptop = 0]
        = [term EXCEPT !.screen = [i \in DOMAIN @ |-> Row(text)], !.disptop = 0]
  BY Zenon
<1> HIDE DEF f
<1>8. f \in Seq(CleanRows) /\ Len(f) = Len(term.screen)
  BY <1>3, <1>6, RowsOk
<1>9. Ok(term, u)
  BY <1>3, <1>8, ScreenShown DEF InOrder
<1> HIDE DEF u
<1>10. Steps(term, [u EXCEPT !.disptop = 0])
  BY <1>9, OkBottomSteps DEF InOrder
<1>11. Done([u EXCEPT !.disptop = 0])
  BY <1>1, <1>7, Zenon
<1> QED
  BY <1>10, <1>11, DoneSteps

LEMMA MoveSteps ==
    ASSUME InOrder, NEW x \in Int, NEW y \in Int, NEW clip \in {0, 1, 2},
           Done(MoveTo(term, x, y, clip))
    PROVE  Steps(term, term')
<1>1. Ok(term, MoveTo(term, x, y, clip))
  BY MoveToOk DEF InOrder
<1> QED
  BY <1>1, DoneOk

LEMMA MoveCursorSteps ==
    ASSUME InOrder, MoveCursor
    PROVE  Steps(term, term')
<1>1. PICK n \in Args, s \in {-1, 1} :
        \/ \E x \in {0, term.curs.x} : Done(MoveTo(term, x, term.curs.y + s * n, 1))
        \/ Done(MoveTo(term, term.curs.x + s * n, term.curs.y, 1))
  BY DEF MoveCursor
<1>2. term.curs.x \in Int /\ term.curs.y \in Int /\ n \in Int /\ 0 \in Int /\ 1 \in {0, 1, 2}
  BY TerminalAssumption, Here DEF TerminalAssumption, InOrder, Fine, Fields
<1>3. s * n \in Int
  BY <1>2
<1> DEFINE x1 == term.curs.x + s * n
           y1 == term.curs.y + s * n
<1>4. x1 \in Int /\ y1 \in Int
  <2> DEFINE d == s * n
  <2>1. d \in Int
    BY <1>3
  <2> HIDE DEF d
  <2>2. term.curs.x + d \in Int /\ term.curs.y + d \in Int
    BY <1>2, <2>1
  <2> QED
    BY <2>2 DEF d
<1>5. \/ \E x \in {0, term.curs.x} : Done(MoveTo(term, x, y1, 1))
      \/ Done(MoveTo(term, x1, term.curs.y, 1))
  BY <1>1
<1> HIDE DEF x1, y1
<1>6. \A x \in Int : Done(MoveTo(term, x, y1, 1)) => Steps(term, term')
  BY <1>2, <1>4, MoveSteps
<1>7. Done(MoveTo(term, x1, term.curs.y, 1)) => Steps(term, term')
  BY <1>2, <1>4, MoveSteps
<1> QED
  BY <1>2, <1>5, <1>6, <1>7

LEMMA PlaceCursorSteps ==
    ASSUME InOrder, PlaceCursor
    PROVE  Steps(term, term')
<1>1. Args \subseteq Nat
  BY TerminalAssumption DEF TerminalAssumption
<1>2. term.curs.x \in Int /\ term.curs.y \in Int /\ term.mode.t \in Int
  BY Here DEF InOrder, Fine, Fields
<1>3. \A m \in Args : m - 1 \in Int
  BY <1>1
<1> DEFINE base == IF term.mode.om THEN term.mode.t ELSE 0
           clip == IF term.mode.om THEN 2 ELSE 0
<1>4. base \in Int /\ clip \in {0, 1, 2} /\ 0 \in {0, 1, 2}
  BY <1>2
<1>5. \/ \E n \in Args, x \in {m - 1 : m \in Args} \cup {term.curs.x} :
            Done(MoveTo(term, x, base + n - 1, clip))
      \/ \E m \in Args : Done(MoveTo(term, m - 1, term.curs.y, 0))
  BY DEF PlaceCursor
<1> HIDE DEF base, clip
<1>6. ASSUME NEW n \in Args, NEW x \in {m - 1 : m \in Args} \cup {term.curs.x},
             Done(MoveTo(term, x, base + n - 1, clip))
      PROVE  Steps(term, term')
  <2> DEFINE y == base + n - 1
  <2>1. x \in Int
    BY <1>2, <1>3
  <2>2. y \in Int
    BY <1>1, <1>4
  <2>3. Done(MoveTo(term, x, y, clip))
    BY <1>6
  <2> HIDE DEF y
  <2> QED
    BY <1>4, <2>1, <2>2, <2>3, MoveSteps
<1>7. ASSUME NEW m \in Args, Done(MoveTo(term, m - 1, term.curs.y, 0))
      PROVE  Steps(term, term')
  <2> DEFINE x == m - 1
  <2>1. x \in Int
    BY <1>3
  <2>2. Done(MoveTo(term, x, term.curs.y, 0))
    BY <1>7
  <2> HIDE DEF x
  <2> QED
    BY <1>2, <1>4, <2>1, <2>2, MoveSteps
<1> QED
  BY <1>5, <1>6, <1>7

LEMMA EraseDisplaySteps ==
    ASSUME InOrder, EraseDisplay
    PROVE  Steps(term, term')
<1>1. CASE \E from, to, left \in BOOLEAN :
             Done([EraseLots(term, from, to, left) EXCEPT !.disptop = 0])
  <2>1. PICK from \in BOOLEAN, to \in BOOLEAN, left \in BOOLEAN :
           Done([EraseLots(term, from, to, left) EXCEPT !.disptop = 0])
    BY <1>1
  <2> DEFINE u == EraseLots(term, from, to, left)
  <2>2. Ok(term, u)
    BY EraseLotsOk DEF InOrder
  <2> HIDE DEF u
  <2>3. Steps(term, [u EXCEPT !.disptop = 0])
    BY <2>2, OkBottomSteps DEF InOrder
  <2>4. Done([u EXCEPT !.disptop = 0])
    BY <2>1 DEF u
  <2> QED
    BY <2>3, <2>4, DoneSteps
<1>2. CASE Done(ClearScrollback(term))
  <2>1. Steps(term, ClearScrollback(term))
    BY ClearScrollbackSteps DEF InOrder
  <2> QED
    BY <1>2, <2>1, DoneSteps
<1> QED
  BY <1>1, <1>2 DEF EraseDisplay

LEMMA EraseOnRowSteps ==
    ASSUME InOrder, EraseOnRow
    PROVE  Steps(term, term')
<1>1. PICK x \in {0, term.curs.x} : Done(PutRow(term, x, Row(Blank)))
  BY DEF EraseOnRow
<1>2. term.curs.x \in Nat
  BY Here DEF InOrder, Fine, Fields
<1>3. x \in Nat /\ Row(Blank) \in CleanRows
  BY <1>2, RowTypes DEF Blank
<1>4. Ok(term, PutRow(term, x, Row(Blank)))
  BY <1>3, PutRowOk DEF InOrder
<1> QED
  BY <1>1, <1>4, DoneOk

LEMMA ShiftRowsSteps ==
    ASSUME InOrder, ShiftRows
    PROVE  Steps(term, term')
<1> DEFINE top == term.curs.y
           t == term.mode.t
           b == term.mode.b
<1>1. /\ top \in Nat /\ t \in Nat /\ b \in Nat /\ t <= b /\ b < term.rows
      /\ term.curs.x \in {0, term.curs.x}
  BY Here DEF InOrder, Fine, Fields
<1>2. PICK n \in Args :
        \/ /\ top <= b
           /\ \/ Done(ScrollDown(term, top, b, n))
              \/ Done(Scroll(term, top, b, n, TRUE, FALSE))
        \/ Done(ReturnedTo(Scroll(term, t, b, n, TRUE, FALSE), term.curs.x))
        \/ Done(ReturnedTo(ScrollDown(term, t, b, n), term.curs.x))
  BY DEF ShiftRows
<1>3. n \in Nat
  BY TerminalAssumption DEF TerminalAssumption
<1> HIDE DEF top, t, b
<1> DEFINE p == ScrollDown(term, top, b, n)
           q == Scroll(term, top, b, n, TRUE, FALSE)
           v == Scroll(term, t, b, n, TRUE, FALSE)
           w == ScrollDown(term, t, b, n)
<1>4. top <= b => Ok(term, p) /\ Ok(term, q)
  BY <1>1, <1>3, ScrollOk, ScrollDownOk DEF InOrder
<1>5. Ok(term, v) /\ Ok(term, w)
  BY <1>1, <1>3, ScrollOk, ScrollDownOk DEF InOrder
<1>6. \/ top <= b /\ (Done(p) \/ Done(q))
      \/ Done(ReturnedTo(v, term.curs.x))
      \/ Done(ReturnedTo(w, term.curs.x))
  BY <1>2
<1> HIDE DEF p, q, v, w
<1>7. Ok(term, ReturnedTo(v, term.curs.x)) /\ Ok(term, ReturnedTo(w, term.curs.x))
  BY <1>1, <1>5, ThenReturnedOk DEF InOrder
<1>8. \A u : Ok(term, u) /\ Done(u) => Steps(term, term')
  BY DoneOk
<1> QED
  BY <1>4, <1>6, <1>7, <1>8

LEMMA RegionOk ==
    ASSUME NEW t, Fine(t), NEW top \in Nat, NEW bot \in Nat, top < bot, bot < t.rows,
           NEW y \in {0, top}
    PROVE  Ok(t, [t EXCEPT !.mode.t = top, !.mode.b = bot, !.curs = [x |-> 0, y |-> y]])
<1> DEFINE m == [t.mode EXCEPT !.t = top, !.b = bot]
           c == [x |-> 0, y |-> y]
<1>1. Fields(t) /\ t \in Terminals
  BY Here DEF Fine, Fields
<1>2. m \in ModeStates /\ Region(t, m)
  BY <1>1 DEF Fields, ModeStates, Region
<1>3. c \in Points /\ Fits(t, c)
  BY <1>1, SMTT(40) DEF Fields, Points, Fits
<1>4. [t EXCEPT !.mode.t = top, !.mode.b = bot, !.curs = c] = [t EXCEPT !.curs = c, !.mode = m]
  <2> HIDE DEF c
  <2> QED
    BY <1>1 DEF Fields, Terminals
<1>5. Ok(t, [t EXCEPT !.curs = c, !.mode = m])
  <2> HIDE DEF c, m
  <2> QED
    BY <1>2, <1>3, CursorShown
<1> QED
  BY <1>4, <1>5, Zenon

LEMMA MarginsSteps ==
    ASSUME InOrder, Margins, ~above'
    PROVE  Steps(term, term')
<1>1. PICK a \in Args, z \in Args :
         SetMargins(a - 1, (IF z = 0 THEN term.rows ELSE z) - 1)
  BY DEF Margins
<1> DEFINE top == a - 1
           bottom == (IF z = 0 THEN term.rows ELSE z) - 1
           bot == Min({bottom, term.rows - 1})
<1>2. a \in Nat /\ z \in Nat /\ term.rows \in Nat \ {0, 1}
  BY TerminalAssumption, Here DEF TerminalAssumption, InOrder, Fine, Fields
<1>3. top \in Int /\ bottom \in Int
  BY <1>2
<1>4. bot \in Int /\ bot < term.rows
  <2> DEFINE d == term.rows - 1
  <2>1. d \in Int /\ d < term.rows
    BY <1>2
  <2> HIDE DEF d, bottom
  <2>2. Min({bottom, d}) = IF bottom <= d THEN bottom ELSE d
    BY <1>3, <2>1, MinMax
  <2>3. Min({bottom, d}) \in Int /\ Min({bottom, d}) < term.rows
    BY <1>2, <1>3, <2>1, <2>2
  <2> QED
    BY <2>3 DEF d
<1> DEFINE y == IF term.mode.om THEN top ELSE 0
<1>5. /\ bot - top > 0 /\ ~(top < 0)
      /\ term' = [term EXCEPT !.mode.t = top, !.mode.b = bot, !.curs = [x |-> 0, y |-> y]]
  BY <1>1 DEF SetMargins
<1> HIDE DEF top, bottom, bot
<1>6. top \in Nat /\ bot \in Nat /\ top < bot /\ y \in {0, top}
  BY <1>3, <1>4, <1>5, SMTT(40)
<1> HIDE DEF y
<1>7. Ok(term, term')
  BY <1>4, <1>5, <1>6, RegionOk DEF InOrder
<1> QED
  BY <1>7, OkSteps DEF InOrder

(* A change of colour changes no row. *)
LEMMA RecolourSteps ==
    ASSUME InOrder, Recolour
    PROVE  Steps(term, term')
<1>1. PICK n \in 0 .. term.rows : Done([term EXCEPT !.tinted = n])
  BY DEF Recolour
<1> DEFINE u == [term EXCEPT !.tinted = n]
<1>2. Fields(term) /\ n \in Nat
  BY Here DEF InOrder, Fine, Fields
<1>3. /\ u \in Terminals /\ u.screen = term.screen
      /\ u.rows = term.rows /\ u.cols = term.cols /\ u.alt_screen = term.alt_screen
      /\ u.scrollback = term.scrollback /\ u.tempsblines = term.tempsblines
      /\ u.alt_sblines = term.alt_sblines /\ u.disptop = term.disptop
      /\ u.alt_which = term.alt_which /\ u.curs = term.curs /\ u.alt_curs = term.alt_curs
      /\ u.save = term.save /\ u.alt_save = term.alt_save /\ u.mode = term.mode
      /\ u.alt_mode = term.alt_mode
  BY <1>2 DEF Fields, Terminals
<1> HIDE DEF u
<1>4. /\ Region(term, term.alt_mode) /\ Fits(term, term.curs) /\ Region(term, term.mode)
      /\ term.save.curs.y >= 0 /\ Len(term.screen) = term.rows /\ Fine(term)
  BY DEF InOrder, Fine, Sound
<1>5. Ok(term, u)
  BY <1>3, <1>4, Shown
<1> QED
  BY <1>1, <1>5, DoneOk DEF u

LEMMA ToggleModeSteps ==
    ASSUME InOrder, ToggleMode
    PROVE  Steps(term, term')
<1>1. PICK mode \in Modes, state \in {0, 1} : Done(Toggled(term, mode, state))
  BY DEF ToggleMode
<1>2. mode \in {3, 6, 7, 47, 1047, 1048, 1049}
  BY TerminalAssumption DEF TerminalAssumption
<1>3. Steps(term, Toggled(term, mode, state))
  BY <1>2, ToggledSteps DEF InOrder
<1> QED
  BY <1>1, <1>3, DoneSteps

LEMMA SizeSteps ==
    ASSUME InOrder, Size
    PROVE  Steps(term, term')
<1>1. PICK s \in Sizes : /\ s # <<term.rows, term.cols>>
                         /\ Done(Resized(term, s[1], s[2]))
  BY DEF Size
<1>2. s[1] \in Nat \ {0, 1} /\ s[2] \in Nat \ {0, 1} /\ s = <<s[1], s[2]>>
  BY TerminalAssumption DEF TerminalAssumption
<1>3. Steps(term, Resized(term, s[1], s[2]))
  BY <1>1, <1>2, ResizedSteps DEF InOrder
<1> QED
  BY <1>1, <1>3, DoneSteps

LEMMA LookAroundSteps ==
    ASSUME InOrder, Look
    PROVE  Steps(term, term')
<1>1. PICK rel \in {-1, 0, 1}, where \in {-1, 0, 1} :
         LET sbtop == -SbLines(term)
             base == IF rel < 0 THEN 0 ELSE IF rel > 0 THEN sbtop ELSE term.disptop
         IN  Done([term EXCEPT !.disptop = Clip(base + where, sbtop, 0)])
  BY DEF Look
<1> DEFINE sbtop == -SbLines(term)
           base == IF rel < 0 THEN 0 ELSE IF rel > 0 THEN sbtop ELSE term.disptop
           n == base + where
           d == Clip(n, sbtop, 0)
<1>2. SbLines(term) \in Nat /\ term.disptop \in Int
  BY SbLinesNat, Here DEF InOrder, Fine, Fields
<1>3. sbtop \in Int /\ sbtop <= 0 /\ base \in Int /\ 0 \in Int
  BY <1>2
<1>4. n \in Int
  <2> HIDE DEF base
  <2> QED
    BY <1>3
<1>5. d \in sbtop .. 0
  <2> HIDE DEF n, sbtop
  <2> QED
    BY <1>3, <1>4, ClipFacts
<1>6. Done([term EXCEPT !.disptop = d])
  BY <1>1
<1> HIDE DEF d
<1>7. d \in Int /\ d <= 0 /\ d + SbLines(term) >= 0
  BY <1>2, <1>3, <1>5
<1>8. Steps(term, [term EXCEPT !.disptop = d])
  BY <1>7, LookSteps DEF InOrder
<1> QED
  BY <1>6, <1>8, DoneSteps

(* All actions but Margins are Done. *)
LEMMA OtherThanMargins ==
    ASSUME Next, ~Margins
    PROVE  cfg' = cfg /\ above' = above
<1>1. cfg' = cfg
  BY DEF Next, Graphic, Backspace, Delete, CarriageReturn, LineFeed, ReverseIndex, Tab,
         FormFeed, SaveCursor, RestoreCursor, Reset, Fill, Recolour, MoveCursor,
         PlaceCursor, EraseDisplay, EraseOnRow, ShiftRows, ToggleMode, Size, Look, Done
<1>2. above' = above
  BY DEF Next, Graphic, Backspace, Delete, CarriageReturn, LineFeed, ReverseIndex, Tab,
         FormFeed, SaveCursor, RestoreCursor, Reset, Fill, Recolour, MoveCursor,
         PlaceCursor, EraseDisplay, EraseOnRow, ShiftRows, ToggleMode, Size, Look, Done
<1> QED
  BY <1>1, <1>2

LEMMA Constants ==
    ASSUME [Next]_vars
    PROVE  cfg' = cfg /\ (above => above')
<1>1. CASE UNCHANGED vars
  BY <1>1 DEF vars
<1>2. CASE Margins
  BY <1>2 DEF Margins, SetMargins
<1>3. CASE Next /\ ~Margins
  BY <1>3, OtherThanMargins
<1> QED
  BY <1>1, <1>2, <1>3

(* Only a DECSTBM sets a region above the screen, and it is no resize. *)
LEMMA OnlyMargins ==
    ASSUME InOrder, [Next]_vars, ~above, above'
    PROVE  term'.rows = term.rows
<1>1. CASE UNCHANGED vars
  BY <1>1 DEF vars
<1>2. CASE Margins
  <2>1. PICK top, bottom :
           term' = [term EXCEPT !.mode.t = top, !.mode.b = Min({bottom, term.rows - 1}),
                                !.curs = [x |-> 0, y |-> IF term.mode.om THEN top ELSE 0]]
    BY <1>2 DEF Margins, SetMargins
  <2>2. term \in Terminals
    BY Here DEF InOrder, Fine, Fields
  <2> QED
    BY <2>1, <2>2, Zenon DEF Terminals
<1>3. CASE Next /\ ~Margins
  <2>1. above' = above
    BY <1>3, OtherThanMargins
  <2> QED
    BY <2>1, Zenon
<1> QED
  BY <1>1, <1>2, <1>3

LEMMA NextSteps ==
    ASSUME InOrder, [Next]_vars, ~above'
    PROVE  term' = term \/ Steps(term, term')
<1>1. CASE UNCHANGED vars
  BY <1>1 DEF vars
<1>2. CASE Next
  BY <1>2, GraphicSteps, BackspaceSteps, DeleteSteps, CarriageReturnSteps, LineFeedSteps,
     ReverseIndexSteps, TabSteps, FormFeedSteps, SaveAndRestoreSteps, ResetSteps,
     FillSteps, RecolourSteps, MoveCursorSteps, PlaceCursorSteps, EraseDisplaySteps,
     EraseOnRowSteps, ShiftRowsSteps, MarginsSteps, ToggleModeSteps, SizeSteps,
     LookAroundSteps DEF Next
<1> QED
  BY <1>1, <1>2

LEMMA StartFine ==
    ASSUME Init
    PROVE  IInv
<1>1. PICK s \in Sizes : term = Start(s[1], s[2])
  BY DEF Init
<1> DEFINE rows == s[1]
           cols == s[2]
           p == PowerOnMode(rows)
           blank == Blanks(rows)
           none == <<>>
<1>2. rows \in Nat \ {0, 1} /\ cols \in Nat \ {0, 1} /\ cfg \in Configs
  BY TerminalAssumption DEF TerminalAssumption, Init
<1>3. p \in ModeStates /\ p.t = 0 /\ p.b = rows - 1
  <2>1. rows - 1 \in Nat /\ cfg.dec_om \in BOOLEAN
    BY <1>2, CfgFacts
  <2> QED
    BY <2>1 DEF PowerOnMode, ModeStates
<1>4. Home \in Points /\ Home.x = 0 /\ Home.y = 0
  BY DEF Home, Points
<1>5. NoSave \in Saves /\ NoSave.curs.y = 0
  BY DEF NoSave, Home, Saves, SavedPoints
<1>6. blank \in Seq(CleanRows) /\ Len(blank) = rows
  BY <1>2, BlanksFacts
<1>7. none \in Seq(Rows) /\ Len(none) = 0
  BY EmptySeq
<1> HIDE DEF p, blank, none
<1>8. term = [rows |-> rows, cols |-> cols,
              screen |-> blank, alt_screen |-> blank, scrollback |-> none,
              tempsblines |-> 0, alt_sblines |-> 0, disptop |-> 0, alt_which |-> 0,
              curs |-> Home, alt_curs |-> Home, save |-> NoSave, alt_save |-> NoSave,
              mode |-> p, alt_mode |-> p, tinted |-> 0, found |-> TRUE]
  BY <1>1, Zenon DEF Start, p, blank, none
<1> HIDE DEF rows, cols
<1>9. term \in Terminals
  BY <1>2, <1>3, <1>4, <1>5, <1>6, <1>7, <1>8 DEF Terminals
<1>10. cfg.savelines \in Nat
  BY <1>2, CfgFacts
<1>11. Sound(term)
  BY <1>2, <1>3, <1>4, <1>5, <1>6, <1>7, <1>8, <1>9, <1>10 DEF Sound, Fits, Region
<1>12. Restorable(term)
  BY <1>7, <1>8 DEF Restorable
<1>13. Seen(term)
  BY <1>2, <1>8, <1>9, SbLinesNat DEF Seen
<1> QED
  BY <1>2, <1>11, <1>12, <1>13 DEF IInv, InOrder, Fine

LEMMA Inductive ==
    IInv /\ [Next]_vars => IInv'
<1> SUFFICES ASSUME IInv, [Next]_vars PROVE IInv'
  OBVIOUS
<1>1. cfg' = cfg /\ (above => above') /\ cfg \in Configs
  BY Constants DEF IInv
<1>2. CASE above'
  BY <1>1, <1>2 DEF IInv
<1>3. CASE ~above'
  <2>1. InOrder
    BY <1>1, <1>3 DEF IInv
  <2>2. term' = term \/ Steps(term, term')
    BY <1>3, <2>1, NextSteps
  <2>3. InOrder'
    <3>1. CASE term' = term
      BY <1>1, <2>1, <3>1
         DEF InOrder, Fine, Sound, Restorable, Seen, SbLines, Fits, Region
    <3>2. CASE Steps(term, term')
      <4>1. Fine(term') /\ Seen(term')
        BY <3>2 DEF Steps
      <4> QED
        BY <1>1, <4>1 DEF InOrder, Fine, Sound, Restorable, Seen, SbLines, Fits, Region
    <3> QED
      BY <2>2, <3>1, <3>2
  <2> QED
    BY <1>1, <2>3 DEF IInv
<1> QED
  BY <1>2, <1>3

--------------------------------------------------------------------------------
(* The theorems.                                                            *)

LEMMA AlwaysIInv ==
    Spec => []IInv
<1> QED
  BY StartFine, Inductive, PTL DEF Spec

LEMMA RowsExist ==
    ASSUME IInv PROVE LinesExist
<1>0. CASE above
  BY <1>0 DEF LinesExist
<1> SUFFICES ASSUME InOrder PROVE LinesExist
  BY <1>0 DEF IInv
<1>1. Sound(term) /\ Seen(term) /\ cfg \in Configs
  BY DEF InOrder, Fine
<1>2. Fields(term)
  BY <1>1, Here
<1>3. /\ Len(term.screen) = term.rows /\ Len(term.alt_screen) = term.rows
      /\ term.tempsblines \in 0 .. Len(term.scrollback)
      /\ Len(term.scrollback) <= cfg.savelines
  BY <1>1, <1>2 DEF Sound, Fields
<1>8. term.found
  BY <1>1 DEF Sound, Terminals
<1>4. OnScreen(term.curs) /\ OnScreen(term.alt_curs)
  BY <1>1, <1>2, SMTT(40) DEF Sound, Fields, Fits, OnScreen, Points
<1>5. \A m \in {term.mode, term.alt_mode} : 0 <= m.t /\ m.t < m.b /\ m.b < term.rows
  <2>1. /\ 0 <= term.mode.t /\ term.mode.t < term.mode.b /\ term.mode.b < term.rows
        /\ 0 <= term.alt_mode.t /\ term.alt_mode.t < term.alt_mode.b
        /\ term.alt_mode.b < term.rows
    BY <1>1, <1>2 DEF Sound, Fields, Region, ModeStates
  <2> QED
    BY <2>1
<1>6. \A s \in {term.save, term.alt_save} : s.curs.x >= 0 /\ s.curs.y >= 0
  <2>1. term.save.curs \in SavedPoints /\ term.alt_save.curs \in SavedPoints
    BY <1>2 DEF Fields, Saves
  <2>2. term.save.curs.x >= 0 /\ term.alt_save.curs.x >= 0
    BY <2>1 DEF SavedPoints
  <2>3. term.save.curs.y >= 0 /\ term.alt_save.curs.y >= 0
    BY <1>1 DEF Sound
  <2> QED
    BY <2>2, <2>3
<1>7. term.disptop \in -SbLines(term) .. 0
  <2>1. SbLines(term) \in Nat
    BY <1>1, <1>2, SbLinesNat DEF Fields
  <2>2. term.disptop \in Int
    BY <1>2 DEF Fields
  <2> QED
    BY <1>1, <2>1, <2>2 DEF Seen
<1> QED
  BY <1>3, <1>4, <1>5, <1>6, <1>7, <1>8 DEF LinesExist

(* Every row that lineptr(), clear_cc() and term_size() ask for exists, on  *)
(* both screens and in the scrollback, after any controls, resizes and      *)
(* resets among which there is no DECSTBM whose first argument is 0, which  *)
(* puts the region, and in origin mode the cursor, above the screen         *)
(* (LinesExist names that exception): until then their assertions hold.     *)
THEOREM LinesExistCorrect ==
    Spec => []LinesExist
<1>1. IInv => LinesExist
  BY RowsExist
<1> QED
  BY AlwaysIInv, <1>1, PTL

LEMMA NothingErased ==
    ASSUME InOrder PROVE ErasedStaysErased
<1>1. Fields(term)
  BY Here DEF InOrder, Fine
<1> DEFINE main == term.screen
           other == term.alt_screen
<1>2. main \in Seq(CleanRows) /\ other \in Seq(CleanRows) /\ Len(main) = Len(other)
  BY <1>1 DEF Fields
<1> HIDE DEF main, other
<1>3. \A i \in DOMAIN main : main[i] \in CleanRows /\ other[i] \in CleanRows
  BY <1>2
<1>4. \A i \in DOMAIN main : ~main[i].erased /\ ~other[i].erased
  BY <1>3 DEF CleanRows
<1> QED
  BY <1>4 DEF ErasedStaysErased, main, other

(* Text that the server has erased never comes back to a screen, though     *)
(* erase_lots() and power_on() may have put it into the scrollback, from    *)
(* which term_size() brings lines back: as long as no DECSTBM has set a     *)
(* region above the screen.                                                 *)
THEOREM ErasedCorrect ==
    Spec => [](above \/ ErasedStaysErased)
<1>1. IInv => above \/ ErasedStaysErased
  BY NothingErased DEF IInv
<1> QED
  BY AlwaysIInv, <1>1, PTL

(* What comes while the alternate screen is shown leaves the main screen    *)
(* and its cursor as swap_screen() put them away, and adds nothing to the   *)
(* scrollback: where no DECSTBM sets a region above the screen.             *)
THEOREM AlternateCorrect ==
    Spec /\ []~above => AlternateLeavesMain
<1>1. IInv /\ ~above /\ ~above' /\ [Next]_vars =>
        [term.alt_which = 1 /\ term'.alt_which = 1 /\ term'.rows = term.rows
            /\ term'.cols = term.cols =>
          /\ term'.alt_screen = term.alt_screen
          /\ term'.alt_curs = term.alt_curs
          /\ term'.scrollback \in {term.scrollback, <<>>}]_vars
  BY NextSteps DEF Steps, IInv
<1> QED
  BY AlwaysIInv, <1>1, PTL DEF Spec, AlternateLeavesMain

(* term_size() loses no text above the main screen's cursor and keeps its   *)
(* order, whichever screen is shown: only a full scrollback loses its       *)
(* oldest lines.  That a DECSTBM has not put a region, and a cursor, above  *)
(* the screen is a condition of the property.                               *)
THEOREM ResizeCorrect ==
    Spec => ResizeKeepsText
<1>1. IInv /\ [Next]_vars =>
        [~above /\ term'.rows # term.rows =>
          /\ IsSuffix(UpToCursor(term'), UpToCursor(term))
          /\ \/ Len(UpToCursor(term')) = Len(UpToCursor(term))
             \/ Len(term'.scrollback) = cfg.savelines]_vars
  <2> SUFFICES ASSUME IInv, [Next]_vars, ~above, term'.rows # term.rows
               PROVE  /\ IsSuffix(UpToCursor(term'), UpToCursor(term))
                      /\ \/ Len(UpToCursor(term')) = Len(UpToCursor(term))
                         \/ Len(term'.scrollback) = cfg.savelines
    OBVIOUS
  <2>1. InOrder
    BY DEF IInv
  <2>2. ~above'
    BY <2>1, OnlyMargins
  <2>3. Steps(term, term')
    BY <2>1, <2>2, NextSteps
  <2> QED
    BY <2>3 DEF Steps
<1> QED
  BY AlwaysIInv, <1>1, PTL DEF Spec, ResizeKeepsText
===============================================================================
