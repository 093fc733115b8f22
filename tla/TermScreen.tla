----------------------------- MODULE TermScreen -----------------------------
(***************************************************************************)
(* The rows of the terminal emulator (terminal.c): the main and the        *)
(* alternate screen, the scrollback, the user's view into it, the scroll   *)
(* margins and the cursors, under the control sequences of the server,     *)
(* the user's scroll bar and keys, window resizes and reconfiguration.     *)
(*                                                                         *)
(* The Terminal structure is the record `term'; every C function that      *)
(* changes it is an operator from the old record to the new one, so that a *)
(* handler is the composition of the calls it makes.  A line of text is    *)
(* reduced to "has content" (TRUE) or "equals erase_char" (FALSE): that is *)
(* all find_last_nonempty_line, scrolling and resizing can tell apart.     *)
(* What happens inside a line is the subject of TermLine.                  *)
(*                                                                         *)
(* Trusted output and double-width lines are kept for what they do to the  *)
(* cursor's column: whether output is trusted (term_set_trust_status) and  *)
(* whether a line is of double width may differ at every step.             *)
(*                                                                         *)
(* Left out: the selection, colours (hence erasure with a background       *)
(* colour), VT52 mode, and what a write left of a line does to memory.     *)
(***************************************************************************)
EXTENDS Integers, Sequences, FiniteSets

CONSTANTS MaxRows, MaxCols,   \* window sizes are 1..MaxRows by 1..MaxCols
          SaveSizes,          \* the scrollback sizes a configuration may ask for
          MaxOps,             \* bound on the number of operations
          ScrollOnDisp,       \* "Reset scrollback on display activity"
          ScrollOnKey         \* "Reset scrollback on keypress"

ASSUME ConstAssumption ==
    /\ MaxRows \in Nat \ {0} /\ MaxCols \in Nat \ {0} /\ MaxOps \in Nat
    /\ SaveSizes \subseteq Nat /\ SaveSizes # {}
    /\ ScrollOnDisp \in BOOLEAN /\ ScrollOnKey \in BOOLEAN

VARIABLES term,   \* the Terminal structure, and the history field cramped
          ops,    \* operations so far
          who     \* what caused the last step (for the action properties)
vars == <<term, ops, who>>

\* Columns a trusted line gives up for its sigil.
TRUST_SIGIL_WIDTH == 3

Causes == {"output", "clear", "reset", "resize", "view", "reconfig"}

Min2(a, b) == IF a < b THEN a ELSE b
Max2(a, b) == IF a > b THEN a ELSE b
Clamp(v, lo, hi) == Max2(lo, Min2(v, hi))
Blanks(n) == [i \in 1..n |-> FALSE]
LastN(s, n) == SubSeq(s, Len(s) - n + 1, Len(s))
FirstN(s, n) == SubSeq(s, 1, n)
Pos == [x : Int, y : Int]
Origin == [x |-> 0, y |-> 0]

\* Number of lines up to and including the last one with content.
find_last_nonempty_line(s) ==
    CHOOSE n \in 0..Len(s) : /\ n > 0 => s[n]
                             /\ \A i \in n+1..Len(s) : ~s[i]

\* Lines above the screen that lineptr() can reach.
sblines(t) == Len(t.scrollback) +
    (IF t.erase_to_scrollback /\ t.alt_which THEN t.alt_sblines ELSE 0)

---------------------------------------------------------------------------
(* The functions the handlers are built from.                              *)

\* The lines scroll() moves off the top of the main screen: the oldest ones
\* give way when the scrollback is full, and a user looking at the scrollback
\* keeps looking at the same lines until they reach its top.
Push_Fault(t, lines) ==
    [t EXCEPT !.scrollback = LastN(@ \o lines, Min2(Len(@ \o lines), t.savelines)),
              !.tempsblines = @ + Len(lines)]
Push(t, lines) ==
    LET all == t.scrollback \o lines
        sbk == LastN(all, Min2(Len(all), t.savelines))
    IN  [t EXCEPT !.scrollback = sbk,
                  !.tempsblines = @ + (Len(sbk) - Len(t.scrollback)),
                  !.disptop = IF @ < 0 THEN Max2(@ - Len(lines), Min2(@, -t.savelines))
                              ELSE @]

\* scroll(): lines > 0 scrolls up (into the scrollback when the region
\* starts at the top of the main screen), lines < 0 scrolls down.
scroll(t, topline, botline, lines, sb) ==
    LET n    == Min2(IF lines < 0 THEN -lines ELSE lines, botline - topline + 1)
        head == FirstN(t.screen, topline)
        reg  == SubSeq(t.screen, topline + 1, botline + 1)
        tail == SubSeq(t.screen, botline + 2, t.rows)
        keep == sb /\ topline = 0 /\ ~t.alt_which /\ t.savelines > 0
        up   == [t EXCEPT !.screen =
                    head \o LastN(reg, Len(reg) - n) \o Blanks(n) \o tail]
    IN  IF lines < 0
        THEN [t EXCEPT !.screen =
                head \o Blanks(n) \o FirstN(reg, Len(reg) - n) \o tail]
        ELSE IF keep THEN Push(up, FirstN(reg, n)) ELSE up

\* move(): clip at the window, and at the margins as marg_clip says.
move(t, x, y, marg_clip) ==
    LET y1 == IF marg_clip > 0 /\ (t.curs.y >= t.marg_t \/ marg_clip = 2)
              THEN Max2(y, t.marg_t) ELSE y
        y2 == IF marg_clip > 0 /\ (t.curs.y <= t.marg_b \/ marg_clip = 2)
              THEN Min2(y1, t.marg_b) ELSE y1
    IN  [t EXCEPT !.curs = [x |-> Clamp(x, 0, t.cols - 1),
                            y |-> Clamp(y2, 0, t.rows - 1)],
                  !.wrapnext = FALSE]

save_cursor(t, save) ==
    IF save
    THEN [t EXCEPT !.savecurs = t.curs, !.save_wnext = t.wrapnext]
    ELSE LET c == [x |-> Min2(t.savecurs.x, t.cols - 1),
                   y |-> Min2(t.savecurs.y, t.rows - 1)]
         IN  [t EXCEPT !.curs = c,
                       !.wrapnext = t.save_wnext /\ ~(c.x < t.cols - 1)]

\* erase_lots() for a whole number of lines starting at the top: erase_to_
\* scrollback turns the erasure into a scroll.
EraseAll(t) ==
    LET n == find_last_nonempty_line(t.screen)
        e == IF ~t.erase_to_scrollback THEN [t EXCEPT !.screen = Blanks(t.rows)]
             ELSE IF n > 0 THEN scroll(t, 0, n - 1, n, TRUE) ELSE t
    IN  IF t.alt_which THEN e ELSE [e EXCEPT !.tempsblines = 0]

\* erase_lots() for part of the screen: lines from..to lose their content
\* (those strictly inside entirely; the cursor's own line may keep some).
ErasePart(t, from, to, left) ==
    [t EXCEPT !.screen = [i \in 1..t.rows |->
        IF i - 1 = t.curs.y THEN left
        ELSE IF i - 1 \in from..to THEN FALSE ELSE @[i]]]

\* How many lines of the screen being left can be shown above the other one.
AltLines(s) == find_last_nonempty_line(s)

\* The exchange at the heart of swap_screen(): what is kept per screen changes
\* places, except what reset and keep_cur_pos carry over from this screen.
Exchange(t, reset, keep) ==
    [t EXCEPT
        !.alt_which = ~@,
        !.screen = t.alt_screen, !.alt_screen = t.screen,
        !.alt_sblines = AltLines(t.screen),
        !.curs = IF keep THEN @ ELSE t.alt_curs, !.alt_curs = t.curs,
        !.marg_t = IF reset THEN @ ELSE t.alt_t, !.alt_t = t.marg_t,
        !.marg_b = IF reset THEN @ ELSE t.alt_b, !.alt_b = t.marg_b,
        !.dec_om = IF reset THEN @ ELSE t.alt_om, !.alt_om = t.dec_om,
        !.wrap = IF reset THEN @ ELSE t.alt_wrap, !.alt_wrap = t.wrap,
        !.wrapnext = IF reset THEN @ ELSE t.alt_wnext, !.alt_wnext = t.wrapnext,
        !.savecurs = IF keep THEN @ ELSE t.alt_savecurs, !.alt_savecurs = t.savecurs,
        !.save_wnext = IF keep THEN @ ELSE t.alt_save_wnext,
        !.alt_save_wnext = t.save_wnext]

\* swap_screen(): coming in with reset also erases the screen (even if it was
\* the current one already); going back to the main screen never does.
swap_screen_Fault(t, which, reset0, keep_cur_pos) ==
    LET u == IF which # t.alt_which THEN Exchange(t, reset0, reset0 \/ keep_cur_pos)
             ELSE t
    IN  IF reset0 THEN EraseAll(u) ELSE u
swap_screen(t, which, reset0, keep_cur_pos) ==
    LET reset == which /\ reset0
        u == IF which # t.alt_which THEN Exchange(t, reset, reset \/ keep_cur_pos)
             ELSE t
    IN  IF reset THEN EraseAll(u) ELSE u

ClampPos_Fault(p, r, c) == [x |-> Min2(p.x, c - 1), y |-> Max2(p.y, 0)]
ClampPos(p, r, c) == [x |-> Min2(p.x, c - 1), y |-> Clamp(p.y, 0, r - 1)]
ShiftY(p, d) == [p EXCEPT !.y = @ + d]

\* The two loops of term_size(): grow by pulling lines back from the
\* temporary scrollback, then by blank lines at the bottom ...
GrowRows_Fault(t, r) ==
    LET d == r - t.rows
        p == Min2(d, Len(t.scrollback))
    IN  [t EXCEPT !.rows = r,
            !.screen = LastN(t.scrollback, p) \o t.screen \o Blanks(d - p),
            !.scrollback = FirstN(@, Len(@) - p), !.tempsblines = Max2(0, @ - p),
            !.curs = ShiftY(@, p)]
GrowRows(t, r) ==
    LET d == r - t.rows
        p == Min2(d, t.tempsblines)
        n == Len(t.scrollback)
    IN  [t EXCEPT !.rows = r,
            !.screen = LastN(t.scrollback, p) \o t.screen \o Blanks(d - p),
            !.scrollback = FirstN(@, n - p), !.tempsblines = @ - p,
            !.curs = ShiftY(@, p), !.savecurs = ShiftY(@, p),
            !.alt_curs = ShiftY(@, p), !.alt_savecurs = ShiftY(@, p)]

\* ... or shrink by deleting rows below the cursor, then by pushing rows off
\* the top into the scrollback.
ShrinkRows(t, r) ==
    LET d   == t.rows - r
        del == Min2(d, t.rows - 1 - t.curs.y)
        p   == d - del
    IN  [t EXCEPT !.rows = r,
            !.screen = SubSeq(t.screen, p + 1, t.rows - del),
            !.scrollback = @ \o FirstN(t.screen, p), !.tempsblines = @ + p,
            !.curs = ShiftY(@, -p), !.savecurs = ShiftY(@, -p),
            !.alt_curs = ShiftY(@, -p), !.alt_savecurs = ShiftY(@, -p)]

term_size(t, newrows, newcols, newsavelines) ==
    LET r  == Max2(newrows, 1)
        c  == Max2(newcols, 1)
        t0 == swap_screen(t, FALSE, FALSE, FALSE)
        t1 == IF r > t.rows THEN GrowRows(t0, r) ELSE ShrinkRows(t0, r)
        k  == Min2(Len(t1.scrollback), newsavelines)
        t2 == [t1 EXCEPT
                !.cols = c, !.savelines = newsavelines,
                !.scrollback = LastN(@, k), !.tempsblines = Min2(@, k),
                !.disptop = 0, !.alt_screen = Blanks(r), !.alt_sblines = 0,
                !.marg_t = 0, !.alt_t = 0, !.marg_b = r - 1, !.alt_b = r - 1,
                !.curs = ClampPos(@, r, c), !.savecurs = ClampPos(@, r, c),
                !.alt_savecurs = ClampPos(@, r, c), !.alt_curs = Origin,
                !.wrapnext = FALSE, !.alt_wnext = FALSE]
    IN  IF newrows = t.rows /\ newcols = t.cols /\ newsavelines = t.savelines
        THEN t ELSE swap_screen(t2, t.alt_which, FALSE, FALSE)

\* power_on(): alt_which is cleared before the screens are swapped, so a
\* reset on the alternate screen exchanges the two buffers for good.
power_on(t, clear) ==
    LET t0 == [t EXCEPT
                !.alt_curs = Origin, !.savecurs = Origin, !.alt_savecurs = Origin,
                !.marg_t = 0, !.alt_t = 0,
                !.marg_b = t.rows - 1, !.alt_b = t.rows - 1,
                !.dec_om = t.conf_dec_om, !.alt_om = t.conf_dec_om,
                !.wrap = t.conf_wrap_mode, !.alt_wrap = t.conf_wrap_mode,
                !.wrapnext = FALSE, !.alt_wnext = FALSE,
                !.save_wnext = FALSE, !.alt_save_wnext = FALSE, !.alt_which = FALSE]
        t1 == EraseAll(swap_screen(t0, TRUE, FALSE, FALSE))
        t2 == swap_screen(t1, FALSE, FALSE, FALSE)
        t3 == IF clear THEN EraseAll(t2) ELSE t2
        y  == find_last_nonempty_line(t3.screen)
        t4 == IF y = t3.rows THEN scroll(t3, 0, t3.rows - 1, 1, TRUE) ELSE t3
    IN  [t4 EXCEPT !.curs = [x |-> 0, y |-> Min2(y, t3.rows - 1)]]

term_clrsb(t) == [t EXCEPT !.disptop = 0, !.scrollback = << >>,
                           !.tempsblines = 0, !.alt_sblines = 0]

seen_disp_event(t) == [t EXCEPT !.seen_disp_event = TRUE]
ResetView_Fault(t) == t
ResetView(t) == IF ScrollOnDisp THEN [t EXCEPT !.disptop = 0] ELSE t

\* LF, IND, the wrap of a full line: down one row, scrolling at the margin.
Index(t) == IF t.curs.y = t.marg_b
            THEN scroll(t, t.marg_t, t.marg_b, 1, TRUE)
            ELSE [t EXCEPT !.curs.y = Min2(@ + 1, t.rows - 1)]

---------------------------------------------------------------------------
(* The operations: what the server sends, and what the user does.          *)

\* A session that has already shown some text: any lines on the screen, the
\* cursor on any of them, n lines scrolled off (all or none of them temporary).
Init ==
    /\ ops = 0 /\ who = "output"
    /\ \E e \in BOOLEAN, sl \in SaveSizes : \E n \in 0..sl :
       \E text \in [1..MaxRows -> BOOLEAN], y \in 0..MaxRows - 1, tmp \in {0, n} : term =
        [rows |-> MaxRows, cols |-> MaxCols, savelines |-> sl,
         screen |-> text, alt_screen |-> Blanks(MaxRows),
         scrollback |-> [i \in 1..n |-> TRUE], tempsblines |-> tmp,
         alt_sblines |-> 0, alt_which |-> FALSE, disptop |-> 0,
         curs |-> [x |-> 0, y |-> y], alt_curs |-> Origin,
         savecurs |-> Origin, alt_savecurs |-> Origin,
         marg_t |-> 0, marg_b |-> MaxRows - 1, alt_t |-> 0, alt_b |-> MaxRows - 1,
         dec_om |-> FALSE, alt_om |-> FALSE, wrap |-> TRUE, alt_wrap |-> TRUE,
         conf_dec_om |-> FALSE, conf_wrap_mode |-> TRUE, cramped |-> FALSE,
         wrapnext |-> FALSE, alt_wnext |-> FALSE,
         save_wnext |-> FALSE, alt_save_wnext |-> FALSE,
         erase_to_scrollback |-> e, no_alt_screen |-> FALSE,
         seen_disp_event |-> FALSE]

Step(t, cause) == /\ ops < MaxOps
                  /\ ops' = ops + 1
                  /\ who' = cause
                  /\ term' = t
Do(t) == Step(t, "output")

\* term_display_graphic_char(), a character of width 1: wrap if pending, then
\* put it on the cursor's line (a blank may empty it, and so may a change of
\* its trust status).  A full line ends linecols columns in, which is left of
\* the window when it has no room beside the sigil: the line is cramped.
DisplayChar == \E b \in BOOLEAN, trusted \in BOOLEAN :
    LET t0 == IF term.wrapnext /\ term.wrap
              THEN [Index(term) EXCEPT !.curs.x = 0, !.wrapnext = FALSE]
              ELSE term
        linecols == IF trusted THEN t0.cols - TRUST_SIGIL_WIDTH ELSE t0.cols
        full == t0.curs.x + 1 >= linecols
    IN  Do(seen_disp_event([t0 EXCEPT
            !.screen[t0.curs.y + 1] = b,
            !.curs.x = IF full THEN linecols - 1 ELSE @ + 1,
            !.wrapnext = IF full THEN TRUE ELSE @,
            !.cramped = @ \/ linecols <= 0]))

\* CR, BS, HT and CBT (tab stops abstracted: any column on the way).
CR == Do(seen_disp_event([term EXCEPT !.curs.x = 0, !.wrapnext = FALSE]))
BS == LET c == term.curs
          t == IF c.x = 0 /\ (c.y = 0 \/ ~term.wrap) THEN term
               ELSE IF c.x = 0
               THEN [term EXCEPT !.curs = [x |-> term.cols - 1, y |-> c.y - 1]]
               ELSE IF term.wrapnext THEN [term EXCEPT !.wrapnext = FALSE]
               ELSE [term EXCEPT !.curs.x = @ - 1]
      IN  Do(seen_disp_event(t))
HT == \E x \in term.curs.x + 1 .. Max2(term.curs.x + 1, term.cols - 1),
         double \in BOOLEAN :
    LET last == (IF double THEN term.cols \div 2 ELSE term.cols) - 1
    IN  Do(seen_disp_event([term EXCEPT !.curs.x = Min2(x, last),
                                        !.cramped = @ \/ last < 0]))
CBT == \E x \in {Min2(term.curs.x, 0)} \cup 0..term.curs.x - 1 :
    Do([term EXCEPT !.curs.x = x])

\* LF / VT / IND, NEL, RI.
LF == Do(seen_disp_event([Index(term) EXCEPT !.wrapnext = FALSE]))
NEL == Do(seen_disp_event([Index(term) EXCEPT !.curs.x = 0, !.wrapnext = FALSE]))
RI == LET t == IF term.curs.y = term.marg_t
               THEN scroll(term, term.marg_t, term.marg_b, -1, TRUE)
               ELSE [term EXCEPT !.curs.y = Max2(@ - 1, 0)]
      IN  Do(seen_disp_event([t EXCEPT !.wrapnext = FALSE]))

\* CUU, CUD, CUF, CUB (relative, clipped at the margins when inside them);
\* CNL and CPL are the same with column 0.
CursorRel == \E n \in 1..2, d \in {[x |-> 1, y |-> 0], [x |-> -1, y |-> 0],
                                   [x |-> 0, y |-> 1], [x |-> 0, y |-> -1]} :
    Do(seen_disp_event(move(term, term.curs.x + n * d.x, term.curs.y + n * d.y, 1)))

\* CUP and VPA: absolute, relative to the top margin in origin mode.
CUP == \E x \in {0, MaxCols - 1}, y \in 0..MaxRows - 1 :
    Do(seen_disp_event(move(term, x,
        IF term.dec_om THEN term.marg_t + y ELSE y, IF term.dec_om THEN 2 ELSE 0)))

\* ED: below, above or all of the screen (ED 0 at the home position also
\* erases whole lines from the top); 3 clears the scrollback.
ED == \E arg \in 0..3 :
    LET c == term.curs
        own == {FALSE, term.screen[c.y + 1]}
    IN  \E left \in own :
        LET t == IF arg = 3 THEN term_clrsb(term)
                 ELSE IF arg = 2 \/ (arg = 0 /\ c = Origin) THEN EraseAll(term)
                 ELSE IF arg = 0 THEN ErasePart(term, c.y, term.rows - 1, left)
                 ELSE ErasePart(term, 0, c.y, left)
        IN  Step(seen_disp_event(ResetView(t)), IF arg = 3 THEN "clear" ELSE "output")

\* EL, ECH, ICH and DCH touch the cursor's line, and EL the one below: it is
\* cleared when its trust status is not that of the output.
EraseInLine == \E left \in {FALSE, term.screen[term.curs.y + 1]}, n \in 0..1 :
    Do(seen_disp_event(ErasePart(term, term.curs.y + 1, term.curs.y + n, left)))

\* DEL moves left (unless a wrap is pending) and may erase what is there.
DEL == \E left \in {FALSE, term.screen[term.curs.y + 1]} :
    LET back == term.curs.x # 0 /\ ~term.wrapnext
    IN  Do([ErasePart(term, 1, 0, left) EXCEPT
              !.curs.x = IF back THEN @ - 1 ELSE @, !.wrapnext = FALSE])

\* IL, DL: scroll from the cursor's row to the bottom margin.
IL == \E n \in 1..2 :
    Do(seen_disp_event(IF term.curs.y <= term.marg_b
                       THEN scroll(term, term.curs.y, term.marg_b, -n, FALSE)
                       ELSE term))
DL == \E n \in 1..2 :
    Do(seen_disp_event(IF term.curs.y <= term.marg_b
                       THEN scroll(term, term.curs.y, term.marg_b, n, TRUE)
                       ELSE term))
\* SU, SD.
ScrollRegion == \E n \in {-2, -1, 1, 2} :
    Do(seen_disp_event([scroll(term, term.marg_t, term.marg_b, n, TRUE)
                            EXCEPT !.wrapnext = FALSE]))

\* DECSTBM: a region of less than two lines is ignored; wrapnext is kept.
DECSTBM == \E top \in 0..MaxRows - 1, bot \in 0..MaxRows - 1 :
    LET b == Min2(bot, term.rows - 1) IN
    IF b - top > 0
    THEN Do(seen_disp_event([term EXCEPT !.marg_t = top, !.marg_b = b,
                !.curs = [x |-> 0, y |-> IF term.dec_om THEN top ELSE 0]]))
    ELSE Do(term)

DECSC == Do(save_cursor(term, TRUE))
DECRC == Do(seen_disp_event(save_cursor(term, FALSE)))
DECOM == \E b \in BOOLEAN : Do([term EXCEPT !.dec_om = b])
DECAWM == \E b \in BOOLEAN : Do([term EXCEPT !.wrap = b])
DECALN == Do(seen_disp_event(ResetView(
             [term EXCEPT !.screen = [i \in 1..term.rows |-> TRUE]])))

\* toggle_mode(): 80/132 columns (the resize it asks for may come later), and
\* the four ways to use the alternate screen.
DECCOLM == LET t == [term EXCEPT !.marg_t = 0, !.alt_t = 0,
                                 !.marg_b = term.rows - 1, !.alt_b = term.rows - 1]
           IN  Do(EraseAll(move(t, 0, 0, 0)))
Mode47 == \E b \in BOOLEAN :
    Do(ResetView(swap_screen(term, b /\ ~term.no_alt_screen, FALSE, FALSE)))
Mode1047 == \E b \in BOOLEAN :
    Do(ResetView(swap_screen(term, b /\ ~term.no_alt_screen, TRUE, TRUE)))
Mode1048 == \E b \in BOOLEAN :
    LET t == IF term.no_alt_screen THEN term ELSE save_cursor(term, b)
    IN  Do(IF b THEN t ELSE seen_disp_event(t))
Mode1049 == \E b \in BOOLEAN :
    LET on == ~term.no_alt_screen
        t0 == IF b /\ on THEN save_cursor(term, TRUE) ELSE term
        t1 == IF b THEN t0 ELSE seen_disp_event(t0)
        t2 == swap_screen(t1, b /\ on, TRUE, FALSE)
        t3 == IF ~b /\ on THEN save_cursor(t2, FALSE) ELSE t2
    IN  Do(ResetView(t3))

\* RIS from the server, and the "Reset Terminal" menu entry (term_pwron).
RIS == Step(seen_disp_event(ResetView(power_on(term, TRUE))), "reset")
TermPwron == \E clear \in BOOLEAN :
    Step([power_on(term, clear) EXCEPT !.disptop = 0], "reset")

\* The front end: resize, scroll bar, keys, repaint, Change Settings.
TermSize == \E r \in 0..MaxRows, c \in {0, MaxCols}, sl \in SaveSizes :
    Step(term_size(term, r, c, sl), "resize")
TermScroll == \E d \in -(sblines(term) + 1)..0 :
    Step([term EXCEPT !.disptop = Clamp(d, -sblines(term), 0)], "view")
TermKey ==
    Step(IF ScrollOnKey THEN seen_disp_event([term EXCEPT !.disptop = 0]) ELSE term,
         "view")
TermUpdate ==
    /\ term.seen_disp_event
    /\ Step(IF ScrollOnDisp
            THEN [term EXCEPT !.disptop = 0, !.seen_disp_event = FALSE] ELSE term,
            "view")
\* A default that has changed is put into force on both screens.
AdoptWrap(t, w) == IF w = t.conf_wrap_mode THEN t
                   ELSE [t EXCEPT !.conf_wrap_mode = w, !.wrap = w, !.alt_wrap = w]
AdoptOrigin(t, o) == IF o = t.conf_dec_om THEN t
                     ELSE [t EXCEPT !.conf_dec_om = o, !.dec_om = o, !.alt_om = o]
TermReconfig == \E e \in BOOLEAN, n \in BOOLEAN, w \in BOOLEAN, o \in BOOLEAN :
    LET t0 == AdoptOrigin(AdoptWrap(term, w), o)
        t == IF n THEN swap_screen(t0, FALSE, FALSE, FALSE) ELSE t0
    IN  Step([t EXCEPT !.erase_to_scrollback = e, !.no_alt_screen = n], "reconfig")

Output == \/ DisplayChar \/ CR \/ BS \/ HT \/ CBT \/ LF \/ NEL \/ RI
          \/ CursorRel \/ CUP \/ ED \/ EraseInLine \/ DEL \/ IL \/ DL \/ ScrollRegion
          \/ DECSTBM \/ DECSC \/ DECRC \/ DECOM \/ DECAWM \/ DECALN
          \/ DECCOLM \/ Mode47 \/ Mode1047 \/ Mode1048 \/ Mode1049 \/ RIS
User == TermPwron \/ TermSize \/ TermScroll \/ TermKey \/ TermUpdate
Next == Output \/ User \/ TermReconfig
Spec == Init /\ [][Next]_vars
---------------------------------------------------------------------------
(* Properties.                                                             *)

OnScreen(t, p) == /\ p.y \in 0..t.rows - 1
                  /\ p.x < t.cols
                  /\ p.x >= 0 \/ t.cramped

\* The types, with the counts term_size() asserts: both screens have exactly
\* term->rows lines (terminal.c:1873, 1919).
TypeOK ==
    /\ ops \in 0..MaxOps /\ who \in Causes
    /\ term.rows \in 1..MaxRows /\ term.cols \in 1..MaxCols
    /\ term.savelines \in SaveSizes
    /\ term.screen \in [1..term.rows -> BOOLEAN]
    /\ term.alt_screen \in [1..term.rows -> BOOLEAN]
    /\ term.scrollback \in Seq(BOOLEAN)
    /\ term.tempsblines \in Nat /\ term.alt_sblines \in 0..term.rows
    /\ term.disptop \in Int
    /\ \A f \in {"curs", "alt_curs", "savecurs", "alt_savecurs"} : term[f] \in Pos
    /\ \A f \in {"marg_t", "marg_b", "alt_t", "alt_b"} : term[f] \in Int
    /\ \A f \in {"alt_which", "dec_om", "alt_om", "wrap", "alt_wrap", "wrapnext",
                 "conf_dec_om", "conf_wrap_mode", "cramped", "alt_wnext", "save_wnext", "alt_save_wnext", "no_alt_screen",
                 "erase_to_scrollback", "seen_disp_event"} : term[f] \in BOOLEAN

\* The cursor, the saved cursor and their counterparts for the other screen
\* stay on the rows of the window and left of its right edge, whatever sequence
\* of resizes, screen swaps, saves and restores came before: scrlineptr(curs.y)
\* and chars[curs.x] rely on it.  They stay right of its left edge too unless a
\* line has been cramped: trusted text in a window of TRUST_SIGIL_WIDTH columns
\* or fewer (terminal.c:2938-2939), or a tab on a double-width line of one
\* column (3494-3496); nothing brings a position back from there but an
\* operation that sets it.  Both pairs of scroll margins stay inside the
\* window: scroll() deletes and inserts at these rows without checking
\* (terminal.c:2205).
InsideWindow ==
    /\ \A f \in {"curs", "alt_curs", "savecurs", "alt_savecurs"} : OnScreen(term, term[f])
    /\ 0 <= term.marg_t /\ term.marg_t <= term.marg_b /\ term.marg_b < term.rows
    /\ 0 <= term.alt_t /\ term.alt_t <= term.alt_b /\ term.alt_b < term.rows

\* The scrollback never exceeds its configured size, and the lines a resize
\* may pull back are lines it still has (the asserts of term_size,
\* terminal.c:1877 and 1929-1930).
ScrollbackBounded ==
    term.tempsblines <= Len(term.scrollback) /\ Len(term.scrollback) <= term.savelines

\* Every line of the user's view exists when it is painted.
ViewExists(t) == (t.seen_disp_event /\ ScrollOnDisp) \/ t.disptop >= -sblines(t)

\* With "Reset scrollback on display activity" (the default), neither output
\* nor the user's actions leave the view above the top of what can be shown;
\* only a change of settings on the alternate screen can.
ViewKept == [][who' # "reconfig" /\ ViewExists(term) => ViewExists(term')]_vars

MainScreen(t) == IF t.alt_which THEN t.alt_screen ELSE t.screen

\* What a full-screen application does on the alternate screen, its leaving
\* included, never changes the main screen or the scrollback (only a reset, a
\* resize or clearing the scrollback does).
AlternateIsolated ==
    [][term.alt_which =>
        \/ who' \in {"reset", "resize"}
        \/ /\ MainScreen(term') = MainScreen(term)
           /\ term'.scrollback = term.scrollback \/ who' = "clear"]_vars

\* A window made shorter and then restored shows the same screen, cursor and
\* scrollback, provided no text was below the cursor, the scrollback had room
\* and nothing else could be pulled back ("a sequence of resize operations
\* with no terminal output between them [is] to have the same effect as a
\* single resize", terminal.c:1150).
ResizeRoundTrip ==
    \A r \in 1..term.rows - 1 :
        LET d    == term.rows - r
            del  == Min2(d, term.rows - 1 - term.curs.y)
            back == term_size(term_size(term, r, term.cols, term.savelines),
                              term.rows, term.cols, term.savelines)
        IN  /\ ~term.alt_which
            /\ \A i \in term.curs.y + 2 .. term.rows : ~term.screen[i]
            /\ Len(term.scrollback) + d - del <= term.savelines
            /\ term.tempsblines = 0 \/ del = 0
            => /\ back.screen = term.screen
               /\ back.scrollback = term.scrollback
               /\ back.curs = term.curs
               /\ back.tempsblines = term.tempsblines
=============================================================================
