------------------------------ MODULE Terminal ------------------------------
(***************************************************************************)
(* The terminal's screens, scrollback and cursors:                          *)
(* src/engine/putty/terminal.c.                                             *)
(*                                                                         *)
(* What the server sends is interpreted by term_out(); the front end        *)
(* resizes the terminal and the user looks at the scrollback in between.    *)
(* A row is what is written on it, as a whole; of character sets, tab       *)
(* stops, double-width rows and VT52 mode nothing is kept, and where they   *)
(* decide what happens any outcome is possible.  Of colours it is kept how  *)
(* many rows do not look erased although nothing is written on them.  Rows  *)
(* and columns are counted from 0, as in the code.                          *)
(*                                                                         *)
(* When a row is asked for that does not exist, which is where an assertion *)
(* of the code fails, term.found is FALSE, and nothing happens after it.    *)
(***************************************************************************)
EXTENDS Integers, SequencesExt, FiniteSetsExt

CONSTANTS
    Texts,      \* what can be written on a row
    Configs,    \* configurations of the terminal
    Sizes,      \* pairs of numbers of rows and columns
    Modes,      \* the modes the server toggles
    Args,       \* numbers in escape sequences
    MaxOps      \* bound: operations on the terminal

Blank == 0

ASSUME TerminalAssumption ==
    /\ Texts \subseteq Nat \ {Blank}
    /\ Configs \subseteq
        [erase_to_scrollback : BOOLEAN, no_alt_screen : BOOLEAN, dec_om : BOOLEAN,
         savelines : Nat]
    /\ Sizes \subseteq (Nat \ {0, 1}) \X (Nat \ {0, 1})
    /\ Modes \subseteq {3, 6, 7, 47, 1047, 1048, 1049}
    /\ Args \subseteq Nat
    /\ MaxOps \in Nat

VARIABLES
    cfg,    \* term->cfg
    term,   \* the Terminal, see Start
    ops,    \* the number of operations so far
    above   \* history: a DECSTBM has set a region that starts above the screen

vars == <<cfg, term, ops, above>>

-------------------------------------------------------------------------------

(* A row, with a mark for the properties: it was erased when it went to the *)
(* scrollback.                                                              *)
Row(text) == [text |-> text, erased |-> FALSE]
Blanks(n) == [i \in 1 .. n |-> Row(Blank)]

Home == [x |-> 0, y |-> 0]
NoSave == [curs |-> Home, wnext |-> FALSE]

(* What swap_screen() swaps, and power_on() sets, besides the cursor.       *)
PowerOnMode(rows) ==
    [t |-> 0, b |-> rows - 1, om |-> cfg.dec_om, wrap |-> TRUE, wnext |-> FALSE]

(* A definition with "Faulty" in its name is the one below it with a        *)
(* plausible mistake made in it, for the properties to find.                *)

(* find_last_nonempty_line() + 1: of the rows that are not full of          *)
(* erase_char, which has the background colour of now.                      *)
Nonempty(t, screen) ==
    Max({0} \cup {i \in 1 .. Len(screen) : i <= t.tinted \/ screen[i].text # Blank})

SbLines(t) ==
    Len(t.scrollback)
        + IF cfg.erase_to_scrollback /\ t.alt_which = 1 THEN t.alt_sblines ELSE 0

LastN(s, n) == SubSeq(s, Len(s) - Min({n, Len(s)}) + 1, Len(s))

-------------------------------------------------------------------------------
(* The functions that term_out() is made of, on a state of the terminal.    *)

(* An assertion of lineptr() or clear_cc() fails, or scroll() takes a row   *)
(* that is not there.                                                       *)
Failed(t) == [t EXCEPT !.found = FALSE]

(* Something is written on the row of the cursor, from column x.            *)
PutRow(t, x, row) ==
    IF x >= 0 /\ t.curs.y >= 0 THEN [t EXCEPT !.screen[t.curs.y + 1] = row] ELSE Failed(t)

ToScrollbackFaultyAnyScreen(t, top, sb) == sb /\ top = 0

ToScrollback(t, top, sb) == sb /\ top = 0 /\ t.alt_which = 0

(* scroll() with a positive number of lines: the region moves up, and, if   *)
(* it starts at the top of the main screen, into the scrollback.  The user  *)
(* who looks at the scrollback keeps looking at the same lines.             *)
Scroll(t, top, bot, n, sb, erased) ==
    LET region == SubSeq(t.screen, top + 1, bot + 1)
        gone == SubSeq(region \o Blanks(n), 1, n)
        pushed == IF ToScrollback(t, top, sb) /\ cfg.savelines > 0
                  THEN [i \in DOMAIN gone |-> [gone[i] EXCEPT !.erased = erased]]
                  ELSE <<>>
    IN  IF top < 0
        THEN [t EXCEPT !.found = @ /\ n = 0]
        ELSE [t EXCEPT !.screen = SubSeq(@, 1, top) \o LastN(region \o Blanks(n), bot - top + 1)
                                    \o SubSeq(@, bot + 2, Len(@)),
                       !.scrollback = LastN(@ \o pushed, cfg.savelines),
                       !.tempsblines =
                            @ + Min({Len(pushed), cfg.savelines - Len(t.scrollback)}),
                       !.disptop =
                            IF @ < 0 THEN Max({@ - Len(pushed), -cfg.savelines}) ELSE @]

(* scroll() with a negative number of lines.                                *)
ScrollDown(t, top, bot, n) ==
    IF top < 0
    THEN [t EXCEPT !.found = @ /\ n = 0]
    ELSE [t EXCEPT !.screen =
            SubSeq(@, 1, top)
                \o SubSeq(Blanks(n) \o SubSeq(@, top + 1, bot + 1), 1, bot - top + 1)
                \o SubSeq(@, bot + 2, Len(@))]

Clip(n, low, high) == Max({low, Min({n, high})})

(* move(): clip is 0 to ignore the margins, 1 not to pass them, 2 to stay   *)
(* within them.                                                             *)
MoveTo(t, x, y, clip) ==
    LET up == IF clip # 0 /\ (t.curs.y >= t.mode.t \/ clip = 2) THEN Max({y, t.mode.t}) ELSE y
        in == IF clip # 0 /\ (t.curs.y <= t.mode.b \/ clip = 2) THEN Min({up, t.mode.b}) ELSE up
    IN  [t EXCEPT !.curs = [x |-> Clip(x, 0, t.cols - 1), y |-> Clip(in, 0, t.rows - 1)],
                  !.mode.wnext = FALSE]

Save(t) == [t EXCEPT !.save = [curs |-> t.curs, wnext |-> t.mode.wnext]]

RestoreFaultyUnclipped(t) ==
    [t EXCEPT !.curs = t.save.curs, !.mode.wnext = t.save.wnext]

(* save_cursor(term, FALSE): the window may have shrunk since the save.     *)
Restore(t) ==
    LET curs == [x |-> Min({t.save.curs.x, t.cols - 1}), y |-> Min({t.save.curs.y, t.rows - 1})]
    IN  [t EXCEPT !.curs = curs,
                  !.mode.wnext = t.save.wnext /\ curs.x = t.cols - 1]

ThrownAwayFaultyNever(t, full) == t

(* Lines scrolled away by an erase are not brought back by a resize.        *)
ThrownAway(t, full) ==
    IF full /\ t.alt_which = 0 THEN [t EXCEPT !.tempsblines = 0] ELSE t

(* erase_lots() of more than a line: from the top, and to the bottom.  When *)
(* that is all of the screen its text may go to the scrollback, but is not  *)
(* brought back from there.  Of a row erased in part something may be left. *)
(* A cursor that is not on the screen is no place to erase from or to.      *)
EraseLots(t, from, to, left) ==
    LET full == to /\ (from \/ t.curs = Home)
        n == Nonempty(t, t.screen)
        off == t.curs.x < 0 \/ (t.curs.y < 0 /\ (t.curs.x # 0 \/ ~from))
        erased == [i \in DOMAIN t.screen |->
            IF \/ i - 1 < t.curs.y /\ ~from
               \/ i - 1 > t.curs.y /\ ~to
               \/ i - 1 = t.curs.y /\ left
                     /\ ~((from \/ t.curs.x = 0) /\ (to \/ t.curs.x = t.cols - 1))
            THEN t.screen[i] ELSE Row(Blank)]
        done == IF full /\ cfg.erase_to_scrollback
                THEN IF n > 0 THEN Scroll(t, 0, n - 1, n, TRUE, TRUE) ELSE t
                ELSE [t EXCEPT !.screen = erased]
    IN  IF off /\ ~(from /\ to) THEN Failed(t) ELSE ThrownAway(done, full)

(* swap_screen(): reset erases the alternate screen, even when it is there  *)
(* already, and keeps the modes; keep keeps the cursor.                     *)
SwapScreen(t, which, reset, keep) ==
    LET clear == reset /\ which = 1
        swapped ==
            IF which = t.alt_which THEN t
            ELSE [t EXCEPT !.alt_which = which,
                           !.screen = t.alt_screen,
                           !.alt_screen = t.screen,
                           !.alt_sblines = Nonempty(t, t.screen),
                           !.curs = IF clear \/ keep THEN @ ELSE t.alt_curs,
                           !.alt_curs = t.curs,
                           !.mode = IF clear THEN @ ELSE t.alt_mode,
                           !.alt_mode = t.mode,
                           !.save = IF clear \/ keep THEN @ ELSE t.alt_save,
                           !.alt_save = t.save]
    IN  IF clear THEN EraseLots(swapped, TRUE, TRUE, FALSE) ELSE swapped

(* power_on(term, TRUE).  It takes the screen it finds for the main one.    *)
PowerOn(t) ==
    LET reset == [t EXCEPT !.alt_curs = Home, !.save = NoSave, !.alt_save = NoSave,
                           !.mode = PowerOnMode(t.rows), !.alt_mode = PowerOnMode(t.rows),
                           !.alt_which = 0]
        alternate == EraseLots(SwapScreen(reset, 1, FALSE, FALSE), TRUE, TRUE, FALSE)
        main == EraseLots(SwapScreen(alternate, 0, FALSE, FALSE), TRUE, TRUE, FALSE)
    IN  [main EXCEPT !.curs = Home]

(* term_clrsb().                                                            *)
ClearScrollback(t) ==
    [t EXCEPT !.disptop = 0, !.scrollback = <<>>, !.tempsblines = 0, !.alt_sblines = 0]

ShrunkFaultyTop(t, rows) ==
    LET k == Max({0, t.rows - rows})
    IN  [t EXCEPT !.screen = SubSeq(@, k + 1, Len(@)),
                  !.scrollback = @ \o SubSeq(t.screen, 1, k),
                  !.tempsblines = @ + k,
                  !.curs.y = @ - Min({k, @}), !.save.curs.y = @ - k,
                  !.rows = @ - k]

(* term_size() makes the main screen smaller: rows below the cursor are     *)
(* deleted, and then those at the top move to the scrollback.               *)
Shrunk(t, rows) ==
    LET deleted == Clip(t.rows - rows, 0, t.rows - 1 - t.curs.y)
        moved == Max({0, t.rows - rows}) - deleted
    IN  [t EXCEPT !.screen = SubSeq(@, moved + 1, Len(@) - deleted),
                  !.scrollback = @ \o SubSeq(t.screen, 1, moved),
                  !.tempsblines = @ + moved,
                  !.curs.y = @ - moved, !.save.curs.y = @ - moved,
                  !.rows = @ - moved - deleted]

(* ... or larger: lines that the scrollback was given come back, and blank  *)
(* rows are added at the bottom.                                            *)
Grown(t, rows) ==
    LET added == Max({0, rows - t.rows})
        back == Min({added, t.tempsblines})
    IN  [t EXCEPT !.screen = LastN(t.scrollback, back) \o @ \o Blanks(added - back),
                  !.scrollback = SubSeq(@, 1, Len(@) - back),
                  !.tempsblines = @ - back,
                  !.curs.y = @ + back, !.save.curs.y = @ + back,
                  !.rows = @ + added]

(* Excess lines of the scrollback go, the alternate screen is made anew,    *)
(* and the cursors are put on the screen.                                   *)
Fitted(t, rows, cols) ==
    LET scrollback == LastN(t.scrollback, cfg.savelines)
        Whole(mode) == [mode EXCEPT !.t = 0, !.b = rows - 1, !.wnext = FALSE]
    IN  [t EXCEPT !.cols = cols,
                  !.scrollback = scrollback,
                  !.tempsblines = Min({@, Len(scrollback)}),
                  !.disptop = 0,
                  !.alt_screen = Blanks(rows),
                  !.alt_sblines = 0,
                  !.mode = Whole(@), !.alt_mode = Whole(@),
                  !.save.curs.y = Clip(@, 0, rows - 1),
                  !.curs = [x |-> Min({@.x, cols - 1}), y |-> Clip(@.y, 0, rows - 1)],
                  !.alt_curs = Home]

(* term_size(), on the main screen whichever is shown.                      *)
Resized(t, rows, cols) ==
    LET main == SwapScreen(t, 0, FALSE, FALSE)
        fitted == Fitted(Grown(Shrunk(main, rows), rows), rows, cols)
    IN  SwapScreen(fitted, t.alt_which, FALSE, FALSE)

(* term_init(), and the first term_size().                                  *)
Start(rows, cols) ==
    [rows |-> rows, cols |-> cols,
     screen |-> Blanks(rows), alt_screen |-> Blanks(rows), scrollback |-> <<>>,
     tempsblines |-> 0, alt_sblines |-> 0, disptop |-> 0, alt_which |-> 0,
     curs |-> Home, alt_curs |-> Home, save |-> NoSave, alt_save |-> NoSave,
     mode |-> PowerOnMode(rows), alt_mode |-> PowerOnMode(rows),
     tinted |-> 0, found |-> TRUE]

(* Down a row, at the bottom of the scroll region by scrolling.             *)
NextRow(t) ==
    IF t.curs.y = t.mode.b
    THEN Scroll(t, t.mode.t, t.mode.b, 1, TRUE, FALSE)
    ELSE [t EXCEPT !.curs.y = Min({@ + 1, t.rows - 1})]

PreviousRow(t) ==
    IF t.curs.y = t.mode.t
    THEN ScrollDown(t, t.mode.t, t.mode.b, 1)
    ELSE [t EXCEPT !.curs.y = IF @ > 0 THEN @ - 1 ELSE @]

ReturnedTo(t, x) == [t EXCEPT !.curs.x = x, !.mode.wnext = FALSE]

(* A graphic character of one or two columns, at the cursor.                *)
Written(t, text, width) ==
    LET wrapped == IF t.mode.wnext /\ t.mode.wrap THEN ReturnedTo(NextRow(t), 0) ELSE t
        at == IF width = 2 /\ wrapped.curs.x = t.cols - 1
              THEN [NextRow(wrapped) EXCEPT !.curs.x = 0] ELSE wrapped
        end == at.curs.x + width = t.cols
        put == PutRow(at, at.curs.x, Row(text))
    IN  IF t.curs.y < 0
        THEN Failed(t)
        ELSE [put EXCEPT !.curs.x = IF end THEN t.cols - 1 ELSE @ + width,
                         !.mode.wnext = @ \/ end]

(* toggle_mode(), for the modes that have to do with screens and cursors.   *)
Toggled(t, mode, state) ==
    LET which == IF cfg.no_alt_screen THEN 0 ELSE state
        saving == ~cfg.no_alt_screen /\ state = 1
        restoring == ~cfg.no_alt_screen /\ state = 0
    IN  CASE mode = 3 -> EraseLots(MoveTo([t EXCEPT !.mode.t = 0, !.mode.b = t.rows - 1,
                                                    !.alt_mode.t = 0, !.alt_mode.b = t.rows - 1],
                                          0, 0, 0), TRUE, TRUE, FALSE)
          [] mode = 6 -> [t EXCEPT !.mode.om = (state = 1)]
          [] mode = 7 -> [t EXCEPT !.mode.wrap = (state = 1)]
          [] mode = 47 -> [SwapScreen(t, which, FALSE, FALSE) EXCEPT !.disptop = 0]
          [] mode = 1047 -> [SwapScreen(t, which, TRUE, TRUE) EXCEPT !.disptop = 0]
          [] mode = 1048 -> IF saving THEN Save(t) ELSE IF restoring THEN Restore(t) ELSE t
          [] mode = 1049 ->
                LET s == SwapScreen(IF saving THEN Save(t) ELSE t, which, TRUE, FALSE)
                IN  [(IF restoring THEN Restore(s) ELSE s) EXCEPT !.disptop = 0]

-------------------------------------------------------------------------------
(* What term_out() reads, one action for each kind of character or sequence.*)

Done(t) ==
    /\ term' = t
    /\ ops' = ops + 1
    /\ UNCHANGED <<cfg, above>>

Graphic == \E text \in Texts, width \in {1, 2} : Done(Written(term, text, width))

(* BS: to the end of the row above, when it is at the start of a row.       *)
Backspace ==
    LET x == term.curs.x
        y == term.curs.y
    IN  IF x = 0 /\ y >= 0
        THEN /\ y > 0 /\ term.mode.wrap
             /\ Done([term EXCEPT !.curs = [x |-> term.cols - 1, y |-> y - 1]])
        ELSE /\ x # 0 \/ term.mode.wrap
             /\ Done(IF term.mode.wnext THEN [term EXCEPT !.mode.wnext = FALSE]
                     ELSE [term EXCEPT !.curs.x = x - 1])

(* DEL: to the left, where the character is erased, unless it is configured *)
(* not to be.                                                               *)
Delete ==
    LET x == IF term.mode.wnext \/ term.curs.x = 0 THEN term.curs.x ELSE term.curs.x - 1
        left == ReturnedTo(term, x)
    IN  \/ Done(left)
        \/ Done(PutRow(left, x, Row(Blank)))

CarriageReturn == Done(ReturnedTo(term, 0))

(* LF, VT and IND; with lfhascr, and for NEL, to the start of the row.      *)
LineFeed == \E x \in {0, term.curs.x} : Done(ReturnedTo(NextRow(term), x))

ReverseIndex == Done(ReturnedTo(PreviousRow(term), term.curs.x))

(* HT, CBT: to another tab stop, which may be anywhere.  HT looks at the    *)
(* row, CBT does not.                                                       *)
Tab ==
    \/ \E x \in 0 .. term.cols - 1 :
          /\ x < term.curs.x \/ (x > term.curs.x /\ term.curs.y >= 0)
          /\ Done([term EXCEPT !.curs.x = x])
    \/ term.curs.y < 0 /\ Done(Failed(term))

(* FF clears the screen.                                                    *)
FormFeed ==
    Done([EraseLots(MoveTo(term, 0, 0, 0), FALSE, TRUE, FALSE) EXCEPT !.disptop = 0])

(* DECSC and SCOSC, DECRC and SCORC.                                        *)
SaveCursor == Done(Save(term))
RestoreCursor == Done(Restore(term))

(* RIS.                                                                     *)
Reset == Done([PowerOn(term) EXCEPT !.disptop = 0])

(* DECALN fills the screen.                                                 *)
Fill ==
    \E text \in Texts :
        Done([term EXCEPT !.screen = [i \in DOMAIN @ |-> Row(text)], !.disptop = 0])

(* CUU and CUD, CPL and CNL, CUB and CUF.                                   *)
MoveCursor ==
    \E n \in Args, s \in {-1, 1} :
        \/ \E x \in {0, term.curs.x} : Done(MoveTo(term, x, term.curs.y + s * n, 1))
        \/ Done(MoveTo(term, term.curs.x + s * n, term.curs.y, 1))

(* CUP, VPA and CHA: within the margins in origin mode.                     *)
PlaceCursor ==
    LET om == term.mode.om
    IN  \/ \E n \in Args, x \in {m - 1 : m \in Args} \cup {term.curs.x} :
             Done(MoveTo(term, x, (IF om THEN term.mode.t ELSE 0) + n - 1, IF om THEN 2 ELSE 0))
        \/ \E m \in Args : Done(MoveTo(term, m - 1, term.curs.y, 0))

(* ED.                                                                      *)
EraseDisplay ==
    \/ \E from, to, left \in BOOLEAN :
         (from \/ to) /\ Done([EraseLots(term, from, to, left) EXCEPT !.disptop = 0])
    \/ Done(ClearScrollback(term))

(* EL, ECH, ICH and DCH change the row of the cursor: all of its text may   *)
(* be gone after it.                                                        *)
EraseOnRow == \E x \in {0, term.curs.x} : Done(PutRow(term, x, Row(Blank)))

(* IL, DL, SU, SD.                                                          *)
ShiftRows ==
    \E n \in Args :
        \/ /\ term.curs.y <= term.mode.b
           /\ \/ Done(ScrollDown(term, term.curs.y, term.mode.b, n))
              \/ Done(Scroll(term, term.curs.y, term.mode.b, n, TRUE, FALSE))
        \/ Done(ReturnedTo(Scroll(term, term.mode.t, term.mode.b, n, TRUE, FALSE), term.curs.x))
        \/ Done(ReturnedTo(ScrollDown(term, term.mode.t, term.mode.b, n), term.curs.x))

(* DECSTBM: a region of less than two rows is ignored, but not one that     *)
(* starts above the screen.                                                 *)
SetMargins(top, bottom) ==
    LET bot == Min({bottom, term.rows - 1})
    IN  /\ bot - top > 0
        /\ term' = [term EXCEPT !.mode.t = top, !.mode.b = bot,
                                !.curs = [x |-> 0, y |-> IF term.mode.om THEN top ELSE 0]]
        /\ above' = (above \/ top < 0)
        /\ ops' = ops + 1
        /\ UNCHANGED cfg

(* A second argument of 0 is the last row, a first one is no row at all.    *)
Margins ==
    \E top, bot \in Args : SetMargins(top - 1, (IF bot = 0 THEN term.rows ELSE bot) - 1)

(* SGR, with background-colour erase: what was erased in another colour     *)
(* does not look erased any more, or does again.                            *)
Recolour == \E n \in 0 .. term.rows : n # term.tinted /\ Done([term EXCEPT !.tinted = n])

ToggleMode == \E mode \in Modes, state \in {0, 1} : Done(Toggled(term, mode, state))

(* term_size(), called by CPuttyEngineImp::SetTerminalSize().               *)
Size ==
    \E s \in Sizes :
        /\ s # <<term.rows, term.cols>>
        /\ Done(Resized(term, s[1], s[2]))

(* term_scroll(): the user looks at the scrollback.                         *)
Look ==
    \E rel \in {-1, 0, 1}, where \in {-1, 0, 1} :
        LET sbtop == -SbLines(term)
            base == IF rel < 0 THEN 0 ELSE IF rel > 0 THEN sbtop ELSE term.disptop
        IN  Done([term EXCEPT !.disptop = Clip(base + where, sbtop, 0)])

Init ==
    /\ cfg \in Configs
    /\ \E s \in Sizes : term = Start(s[1], s[2])
    /\ ops = 0
    /\ above = FALSE

Next ==
    /\ term.found
    /\ ops < MaxOps
    /\ \/ Graphic \/ Backspace \/ Delete \/ CarriageReturn \/ LineFeed \/ ReverseIndex \/ Tab
       \/ FormFeed \/ SaveCursor \/ RestoreCursor \/ Reset \/ Fill \/ Recolour
       \/ MoveCursor \/ PlaceCursor \/ EraseDisplay \/ EraseOnRow \/ ShiftRows
       \/ Margins \/ ToggleMode \/ Size \/ Look

Spec == Init /\ [][Next]_vars

-------------------------------------------------------------------------------
(* Properties.                                                              *)

OnScreen(c) == c.x \in 0 .. term.cols - 1 /\ c.y \in 0 .. term.rows - 1

(* The assertions of term_size(), lineptr() and clear_cc() hold: every row  *)
(* that is asked for exists, on both screens and in the scrollback,         *)
(* whichever the cursors are on, at whatever the user looks, however the    *)
(* terminal was resized, switched and reset.  The exception is what follows *)
(* a DECSTBM whose first argument is 0, "CSI 0;n r": it puts the region,    *)
(* and in origin mode the cursor, above the screen, and the next character  *)
(* is written on row -1, which lineptr() asserts that nobody does.          *)
LinesExist ==
    above
    \/ /\ term.found
       /\ Len(term.screen) = term.rows /\ Len(term.alt_screen) = term.rows
       /\ OnScreen(term.curs) /\ OnScreen(term.alt_curs)
       /\ \A m \in {term.mode, term.alt_mode} : 0 <= m.t /\ m.t < m.b /\ m.b < term.rows
       /\ \A s \in {term.save, term.alt_save} : s.curs.x >= 0 /\ s.curs.y >= 0
       /\ term.tempsblines \in 0 .. Len(term.scrollback)
       /\ Len(term.scrollback) <= cfg.savelines
       /\ term.disptop \in -SbLines(term) .. 0

(* Text that the server has erased is not brought back to the screen when   *)
(* the terminal is made larger, even though it is in the scrollback.        *)
ErasedStaysErased ==
    \A i \in DOMAIN term.screen : ~term.screen[i].erased /\ ~term.alt_screen[i].erased

(* What was on the main screen down to the cursor, and before it in the     *)
(* scrollback: with what the main screen's cursor is.                       *)
UpToCursor(t) ==
    IF t.alt_which = 0
    THEN t.scrollback \o SubSeq(t.screen, 1, t.curs.y + 1)
    ELSE t.scrollback \o SubSeq(t.alt_screen, 1, t.alt_curs.y + 1)

(* A resize loses no text above the main screen's cursor and does not       *)
(* change the order of it, also when the alternate screen is shown: only a  *)
(* full scrollback loses its oldest lines.  With a cursor that a DECSTBM    *)
(* has put above the screen there is no such text.                          *)
ResizeKeepsText ==
    [][~above /\ term'.rows # term.rows =>
          /\ IsSuffix(UpToCursor(term'), UpToCursor(term))
          /\ \/ Len(UpToCursor(term')) = Len(UpToCursor(term))
             \/ Len(term'.scrollback) = cfg.savelines]_vars

(* What the server does on the alternate screen changes nothing of the main *)
(* screen and its cursor, and adds nothing to the scrollback.               *)
AlternateLeavesMain ==
    [][term.alt_which = 1 /\ term'.alt_which = 1 /\ term'.rows = term.rows
            /\ term'.cols = term.cols =>
          /\ term'.alt_screen = term.alt_screen
          /\ term'.alt_curs = term.alt_curs
          /\ term'.scrollback \in {term.scrollback, <<>>}]_vars

===============================================================================
