-------------------------- MODULE TermScreenProofs --------------------------
(***************************************************************************)
(* The safety properties of TermScreen, proved for every window size, every*)
(* set of scrollback sizes and any number of operations.                   *)
(*                                                                         *)
(* TermScreen models each C function as an operator on the Terminal record,*)
(* so the proof goes function by function: each lemma says what a function *)
(* does to a record that is Good, and a handler composes the lemmas of the *)
(* functions it calls.                                                     *)
(***************************************************************************)
EXTENDS TermScreen, SequenceTheorems, WellFoundedInduction, TLAPS

---------------------------------------------------------------------------
(* What induction over the natural numbers is needed for, in a form the    *)
(* provers can use.                                                        *)

\* Every nonempty set of naturals has a least element.
LEMMA LeastNatural ==
  ASSUME NEW T \in SUBSET Nat, T # {}
  PROVE  \E m \in T : \A n \in T : m <= n
<1>1. PICK m \in T : \A n \in T : ~(<<n, m>> \in OpToRel(<, Nat))
  BY WFMin, NatLessThanWellFounded
<1>2. ASSUME NEW n \in T, n < m PROVE FALSE
  <2> DEFINE pair == <<n, m>>
  <2>1. pair \in Nat \X Nat /\ pair[1] < pair[2]
    BY <1>2
  <2>2. pair \in OpToRel(<, Nat)
    <3> HIDE DEF pair
    <3> QED
      BY <2>1 DEF OpToRel
  <2> QED
    BY <1>1, <2>2
<1>3. \A n \in T : m \in Nat /\ n \in Nat
  OBVIOUS
<1> QED
  BY <1>2, <1>3

-----------------------------------------------------------------------------
(* Lines: the sequences a screen and the scrollback are made of.           *)

Lines == Seq(BOOLEAN)

\* find_last_nonempty_line finds one.
LEMMA LastNonempty ==
  ASSUME NEW s \in Lines
  PROVE  LET n == find_last_nonempty_line(s)
         IN  /\ n \in 0 .. Len(s)
             /\ n > 0 => s[n]
             /\ \A i \in n + 1 .. Len(s) : ~s[i]
<1> DEFINE T == {n \in 0 .. Len(s) : \A i \in n + 1 .. Len(s) : ~s[i]}
<1>0. Len(s) \in Nat
  BY LenProperties DEF Lines
<1>1. T \in SUBSET Nat /\ Len(s) \in T
  BY <1>0
<1>2. PICK m \in T : \A n \in T : m <= n
  <2> HIDE DEF T
  <2> QED
    BY <1>1, LeastNatural
<1>3. m > 0 => s[m]
  <2> SUFFICES ASSUME m > 0, ~s[m] PROVE FALSE
    OBVIOUS
  <2>1. m - 1 \in 0 .. Len(s)
    BY <1>0, <1>2
  <2>2. \A i \in (m - 1) + 1 .. Len(s) : ~s[i]
    BY <1>0, <1>2
  <2>3. m - 1 \in T
    BY <2>1, <2>2
  <2>4. m \in Nat
    BY <1>0, <1>2
  <2> HIDE DEF T
  <2> QED
    BY <1>2, <2>3, <2>4
<1> QED
  BY <1>2, <1>3 DEF find_last_nonempty_line

\* Blank lines.
LEMMA BlanksProps ==
  ASSUME NEW n \in Nat
  PROVE  /\ Blanks(n) \in Lines /\ Len(Blanks(n)) = n
         /\ \A i \in 1 .. n : Blanks(n)[i] = FALSE
  BY DEF Blanks, Lines

\* A function on 1..n is a sequence of n lines.
LEMMA FunctionIsLines ==
  ASSUME NEW n \in Nat, NEW f \in [1 .. n -> BOOLEAN]
  PROVE  f \in Lines /\ Len(f) = n
  BY DEF Lines

\* Part of a sequence of lines.
LEMMA PartProps ==
  ASSUME NEW s \in Lines, NEW a \in Int, NEW b \in Int, 1 <= a, b <= Len(s), a <= b + 1
  PROVE  /\ SubSeq(s, a, b) \in Lines /\ Len(SubSeq(s, a, b)) = b - a + 1
         /\ \A i \in 1 .. b - a + 1 : SubSeq(s, a, b)[i] = s[a + i - 1]
<1>1. \A i \in a .. b : s[i] \in BOOLEAN
  BY LenProperties, ElementOfSeq DEF Lines
<1> QED
  BY <1>1, SubSeqProperties DEF Lines

\* The last n lines.
LEMMA LastProps ==
  ASSUME NEW s \in Lines, NEW n \in 0 .. Len(s)
  PROVE  /\ LastN(s, n) \in Lines /\ Len(LastN(s, n)) = n
         /\ \A i \in 1 .. n : LastN(s, n)[i] = s[Len(s) - n + i]
<1>1. Len(s) \in Nat
  BY LenProperties DEF Lines
<1>2. /\ Len(s) - n + 1 \in Int /\ 1 <= Len(s) - n + 1
      /\ Len(s) - n + 1 <= Len(s) + 1 /\ Len(s) \in Int
  BY <1>1
<1>3. /\ LastN(s, n) \in Lines
      /\ Len(LastN(s, n)) = Len(s) - (Len(s) - n + 1) + 1
      /\ \A i \in 1 .. Len(s) - (Len(s) - n + 1) + 1 :
            LastN(s, n)[i] = s[(Len(s) - n + 1) + i - 1]
  BY <1>2, PartProps DEF LastN
<1>4. Len(s) - (Len(s) - n + 1) + 1 = n
  BY <1>1
<1>5. \A i \in 1 .. n : (Len(s) - n + 1) + i - 1 = Len(s) - n + i
  BY <1>1
<1> QED
  BY <1>3, <1>4, <1>5

\* The first n lines.
LEMMA FirstProps ==
  ASSUME NEW s \in Lines, NEW n \in 0 .. Len(s)
  PROVE  /\ FirstN(s, n) \in Lines /\ Len(FirstN(s, n)) = n
         /\ \A i \in 1 .. n : FirstN(s, n)[i] = s[i]
<1>1. Len(s) \in Nat
  BY LenProperties DEF Lines
<1>2. /\ FirstN(s, n) \in Lines /\ Len(FirstN(s, n)) = n - 1 + 1
      /\ \A i \in 1 .. n - 1 + 1 : FirstN(s, n)[i] = s[1 + i - 1]
  BY <1>1, PartProps DEF FirstN
<1> QED
  BY <1>1, <1>2

\* Lines after lines.
LEMMA JoinProps ==
  ASSUME NEW s \in Lines, NEW u \in Lines
  PROVE  /\ s \o u \in Lines /\ Len(s \o u) = Len(s) + Len(u)
         /\ Len(s) \in Nat /\ Len(u) \in Nat
         /\ \A i \in 1 .. Len(s) + Len(u) :
               (s \o u)[i] = IF i <= Len(s) THEN s[i] ELSE u[i - Len(s)]
  BY ConcatProperties, LenProperties DEF Lines

-----------------------------------------------------------------------------
(* The invariant, as a predicate of the record.                            *)

Lengths == Nat \ {0}

TermRec ==
    [rows : Lengths, cols : Lengths, savelines : Nat,
     screen : Lines, alt_screen : Lines, scrollback : Lines,
     tempsblines : Nat, alt_sblines : Nat, alt_which : BOOLEAN, disptop : Int,
     curs : Pos, alt_curs : Pos, savecurs : Pos, alt_savecurs : Pos,
     marg_t : Int, marg_b : Int, alt_t : Int, alt_b : Int,
     dec_om : BOOLEAN, alt_om : BOOLEAN, wrap : BOOLEAN, alt_wrap : BOOLEAN,
     conf_dec_om : BOOLEAN, conf_wrap_mode : BOOLEAN, cramped : BOOLEAN,
     wrapnext : BOOLEAN, alt_wnext : BOOLEAN,
     save_wnext : BOOLEAN, alt_save_wnext : BOOLEAN,
     erase_to_scrollback : BOOLEAN, no_alt_screen : BOOLEAN,
     seen_disp_event : BOOLEAN]

\* Both screens have exactly term->rows lines.
Filled(t) == Len(t.screen) = t.rows /\ Len(t.alt_screen) = t.rows

Cursors(t) == /\ OnScreen(t, t.curs) /\ OnScreen(t, t.savecurs)
              /\ OnScreen(t, t.alt_curs) /\ OnScreen(t, t.alt_savecurs)

Region(t, top, bot) == 0 <= top /\ top <= bot /\ bot < t.rows
Margins(t) == Region(t, t.marg_t, t.marg_b) /\ Region(t, t.alt_t, t.alt_b)

Bounded(t) == t.tempsblines <= Len(t.scrollback) /\ Len(t.scrollback) <= t.savelines

Good(t) == t \in TermRec /\ Filled(t) /\ Cursors(t) /\ Margins(t) /\ Bounded(t)

\* u has the text of t, on the same screen.
SameText(t, u) ==
    /\ u.screen = t.screen /\ u.alt_screen = t.alt_screen
    /\ u.alt_which = t.alt_which /\ u.scrollback = t.scrollback

\* From the alternate screen, what is on the main one is kept.
Isolated(t, u) ==
    t.alt_which => MainScreen(u) = MainScreen(t) /\ u.scrollback = t.scrollback

-----------------------------------------------------------------------------
(* Functions that change one or two fields.                                *)

SetScreen(t, s) == [t EXCEPT !.screen = s]
SetCursor(t, p, w) == [t EXCEPT !.curs = p, !.wrapnext = w]
SetView(t, d, b) == [t EXCEPT !.disptop = d, !.seen_disp_event = b]

\* Another text of the screen in use.
LEMMA ScreenGood ==
  ASSUME NEW t, Good(t), NEW s \in Lines, Len(s) = t.rows
  PROVE  Good(SetScreen(t, s)) /\ Isolated(t, SetScreen(t, s))
<1> DEFINE u == SetScreen(t, s)
<1>1. u \in TermRec
  BY DEF Good, TermRec, SetScreen
<1>2. Filled(u) /\ Cursors(u) /\ Margins(u) /\ Bounded(u)
  BY DEF Good, TermRec, Filled, Cursors, Margins, Bounded, OnScreen, Region, SetScreen
<1>3. Isolated(t, u)
  BY DEF Good, TermRec, Isolated, MainScreen, SetScreen
<1> QED
  BY <1>1, <1>2, <1>3 DEF Good

\* Another position of the cursor.
LEMMA CursorGood ==
  ASSUME NEW t, Good(t), NEW p \in Pos, OnScreen(t, p), NEW w \in BOOLEAN
  PROVE  Good(SetCursor(t, p, w)) /\ SameText(t, SetCursor(t, p, w))
<1> DEFINE u == SetCursor(t, p, w)
<1>1. u \in TermRec
  BY DEF Good, TermRec, SetCursor
<1>2. Filled(u) /\ Cursors(u) /\ Margins(u) /\ Bounded(u)
  BY DEF Good, TermRec, Filled, Cursors, Margins, Bounded, OnScreen, Region, SetCursor
<1>3. SameText(t, u)
  BY DEF Good, TermRec, SameText, SetCursor
<1> QED
  BY <1>1, <1>2, <1>3 DEF Good

\* The view, and the flag that repaints it.
LEMMA ViewGood ==
  ASSUME NEW t, Good(t), NEW d \in Int, NEW b \in BOOLEAN
  PROVE  /\ Good(SetView(t, d, b)) /\ SameText(t, SetView(t, d, b))
         /\ SetView(t, d, b).disptop = d /\ SetView(t, d, b).seen_disp_event = b
<1> DEFINE u == SetView(t, d, b)
<1>1. u \in TermRec
  BY DEF Good, TermRec, SetView
<1>2. Filled(u) /\ Cursors(u) /\ Margins(u) /\ Bounded(u)
  BY DEF Good, TermRec, Filled, Cursors, Margins, Bounded, OnScreen, Region, SetView
<1>3. SameText(t, u) /\ u.disptop = d /\ u.seen_disp_event = b
  BY DEF Good, TermRec, SameText, SetView
<1> QED
  BY <1>1, <1>2, <1>3 DEF Good

\* seen_disp_event()
LEMMA SeenGood ==
  ASSUME NEW t, Good(t)
  PROVE  /\ Good(seen_disp_event(t)) /\ SameText(t, seen_disp_event(t))
         /\ seen_disp_event(t).seen_disp_event = TRUE
<1>1. seen_disp_event(t) = SetView(t, t.disptop, TRUE) /\ t.disptop \in Int
  BY DEF seen_disp_event, SetView, Good, TermRec
<1> QED
  BY <1>1, ViewGood

\* The scroll bar.
LEMMA TopGood ==
  ASSUME NEW t, Good(t), NEW d \in Int
  PROVE  LET u == [t EXCEPT !.disptop = d]
         IN  Good(u) /\ SameText(t, u) /\ u.disptop = d
<1> DEFINE u == [t EXCEPT !.disptop = d]
<1>1. u = SetView(t, d, t.seen_disp_event) /\ t.seen_disp_event \in BOOLEAN
  BY DEF SetView, Good, TermRec
<1> HIDE DEF u
<1>2. Good(u) /\ SameText(t, u) /\ u.disptop = d
  BY <1>1, ViewGood
<1> QED
  BY <1>2 DEF u

\* "Reset scrollback on display activity"
LEMMA ResetViewGood ==
  ASSUME NEW t, Good(t)
  PROVE  /\ Good(ResetView(t)) /\ SameText(t, ResetView(t))
         /\ ScrollOnDisp => ResetView(t).disptop = 0
<1>1. CASE ScrollOnDisp
  BY <1>1, TopGood DEF ResetView
<1>2. CASE ~ScrollOnDisp
  BY <1>2 DEF ResetView, SameText
<1> QED
  BY <1>1, <1>2

\* Another column of the cursor, with or without a pending wrap.
LEMMA ColumnAt ==
  ASSUME NEW t, Good(t), NEW x \in Int, x < t.cols, x >= 0 \/ t.cramped,
         NEW w \in BOOLEAN
  PROVE  /\ LET u == [t EXCEPT !.curs.x = x, !.wrapnext = w]
            IN  Good(u) /\ SameText(t, u)
         /\ LET u == [t EXCEPT !.curs.x = x]
            IN  Good(u) /\ SameText(t, u)
         /\ LET u == [t EXCEPT !.wrapnext = w]
            IN  Good(u) /\ SameText(t, u)
<1> DEFINE p == [x |-> x, y |-> t.curs.y]
<1>1. /\ t.curs \in Pos /\ OnScreen(t, t.curs) /\ t.cols \in Lengths
      /\ t.wrapnext \in BOOLEAN
  BY DEF Good, TermRec, Cursors
<1>2. p \in Pos /\ OnScreen(t, p)
  BY <1>1 DEF Pos, OnScreen, Lengths
<1>3. [t.curs EXCEPT !.x = x] = p
  BY <1>1 DEF Pos
<1> HIDE DEF p
<1>4. /\ [t EXCEPT !.curs.x = x, !.wrapnext = w] = SetCursor(t, p, w)
      /\ [t EXCEPT !.curs.x = x] = SetCursor(t, p, t.wrapnext)
      /\ [t EXCEPT !.wrapnext = w] = SetCursor(t, t.curs, w)
  BY <1>3 DEF Good, TermRec, SetCursor
<1> QED
  BY <1>1, <1>2, <1>4, CursorGood

\* Another column of the window.
LEMMA ColumnGood ==
  ASSUME NEW t, Good(t), NEW x \in 0 .. t.cols - 1, NEW w \in BOOLEAN
  PROVE  /\ LET u == [t EXCEPT !.curs.x = x, !.wrapnext = w]
            IN  Good(u) /\ SameText(t, u)
         /\ LET u == [t EXCEPT !.curs.x = x]
            IN  Good(u) /\ SameText(t, u)
         /\ LET u == [t EXCEPT !.wrapnext = w]
            IN  Good(u) /\ SameText(t, u)
<1>1. x \in Int /\ x < t.cols /\ x >= 0
  BY DEF Good, TermRec, Lengths
<1> QED
  BY <1>1, ColumnAt, Zenon

\* A line that may be cramped.
SetCramped(t, c) == [t EXCEPT !.cramped = t.cramped \/ c]

\* Marking it changes nothing else.
LEMMA CrampedGood ==
  ASSUME NEW t, Good(t), NEW c \in BOOLEAN
  PROVE  LET u == SetCramped(t, c)
         IN  /\ Good(u) /\ SameText(t, u) /\ (t.cramped \/ c => u.cramped)
             /\ u.rows = t.rows /\ u.cols = t.cols /\ u.curs = t.curs
<1> DEFINE u == SetCramped(t, c)
<1>0. t \in TermRec
  BY DEF Good
<1>1. t.cramped \/ c \in BOOLEAN
  OBVIOUS
<1>2. u \in TermRec
  BY <1>0, <1>1 DEF TermRec, SetCramped
<1>3. /\ u.rows = t.rows /\ u.cols = t.cols /\ u.savelines = t.savelines
      /\ u.screen = t.screen /\ u.alt_screen = t.alt_screen
      /\ u.scrollback = t.scrollback /\ u.tempsblines = t.tempsblines
      /\ u.alt_which = t.alt_which
      /\ u.curs = t.curs /\ u.savecurs = t.savecurs
      /\ u.alt_curs = t.alt_curs /\ u.alt_savecurs = t.alt_savecurs
      /\ u.marg_t = t.marg_t /\ u.alt_t = t.alt_t
      /\ u.marg_b = t.marg_b /\ u.alt_b = t.alt_b
      /\ t.cramped \/ c => u.cramped
  BY <1>0 DEF TermRec, SetCramped
<1> HIDE DEF u
<1>4. Filled(u) /\ Margins(u) /\ Bounded(u) /\ SameText(t, u)
  BY <1>3 DEF Good, Filled, Margins, Bounded, Region, SameText
<1>5. Cursors(u)
  BY <1>3 DEF Good, Cursors, OnScreen
<1> QED
  BY <1>2, <1>3, <1>4, <1>5 DEF Good, u

\* Another row of the cursor.
LEMMA RowGood ==
  ASSUME NEW t, Good(t), NEW y \in 0 .. t.rows - 1
  PROVE  LET u == [t EXCEPT !.curs.y = y]
         IN  Good(u) /\ SameText(t, u)
<1> DEFINE p == [x |-> t.curs.x, y |-> y]
<1>1. /\ t.curs \in Pos /\ OnScreen(t, t.curs) /\ t.rows \in Lengths
      /\ t.wrapnext \in BOOLEAN
  BY DEF Good, TermRec, Cursors
<1>2. p \in Pos /\ OnScreen(t, p)
  BY <1>1 DEF Pos, OnScreen, Lengths
<1>3. [t.curs EXCEPT !.y = y] = p
  BY <1>1 DEF Pos
<1> HIDE DEF p
<1>4. [t EXCEPT !.curs.y = y] = SetCursor(t, p, t.wrapnext)
  BY <1>3 DEF Good, TermRec, SetCursor
<1> QED
  BY <1>1, <1>2, <1>4, CursorGood

\* Minimum, maximum and clamping.
LEMMA ClampProps ==
  ASSUME NEW a \in Int, NEW b \in Int
  PROVE  /\ Min2(a, b) \in Int /\ Min2(a, b) <= a /\ Min2(a, b) <= b
         /\ Max2(a, b) \in Int /\ Max2(a, b) >= a /\ Max2(a, b) >= b
         /\ Min2(a, b) \in {a, b} /\ Max2(a, b) \in {a, b}
         /\ a <= b => \A v \in Int : Clamp(v, a, b) \in a .. b
  BY DEF Min2, Max2, Clamp

\* move() ends inside the window, wherever it was told to go.
LEMMA MoveGood ==
  ASSUME NEW t, Good(t), NEW x \in Int, NEW y \in Int, NEW m \in Int
  PROVE  Good(move(t, x, y, m)) /\ SameText(t, move(t, x, y, m))
<1> DEFINE y1 == IF m > 0 /\ (t.curs.y >= t.marg_t \/ m = 2)
                 THEN Max2(y, t.marg_t) ELSE y
           y2 == IF m > 0 /\ (t.curs.y <= t.marg_b \/ m = 2)
                 THEN Min2(y1, t.marg_b) ELSE y1
           p == [x |-> Clamp(x, 0, t.cols - 1), y |-> Clamp(y2, 0, t.rows - 1)]
<1>1. /\ t.cols \in Lengths /\ t.rows \in Lengths
      /\ t.marg_t \in Int /\ t.marg_b \in Int
  BY DEF Good, TermRec
<1>2. y1 \in Int
  BY <1>1, ClampProps
<1>3. y2 \in Int
  <2> HIDE DEF y1
  <2> QED
    BY <1>1, <1>2, ClampProps
<1>4. move(t, x, y, m) = SetCursor(t, p, FALSE)
  BY DEF move, SetCursor
<1> HIDE DEF y1, y2
<1>5. /\ Clamp(x, 0, t.cols - 1) \in 0 .. t.cols - 1
      /\ Clamp(y2, 0, t.rows - 1) \in 0 .. t.rows - 1
  BY <1>1, <1>3 DEF Lengths, Clamp, Min2, Max2
<1>6. p \in Pos /\ OnScreen(t, p)
  BY <1>1, <1>5 DEF Pos, OnScreen, Lengths
<1> HIDE DEF p
<1> QED
  BY <1>4, <1>6, CursorGood

\* save_cursor(), saving and restoring.
LEMMA SaveCursorGood ==
  ASSUME NEW t, Good(t), NEW save \in BOOLEAN
  PROVE  Good(save_cursor(t, save)) /\ SameText(t, save_cursor(t, save))
<1>1. CASE save
  <2> DEFINE u == [t EXCEPT !.savecurs = t.curs, !.save_wnext = t.wrapnext]
  <2>1. u \in TermRec
    BY DEF Good, TermRec
  <2>2. Filled(u) /\ Cursors(u) /\ Margins(u) /\ Bounded(u)
    BY DEF Good, TermRec, Filled, Cursors, Margins, Bounded, OnScreen, Region
  <2>3. SameText(t, u)
    BY DEF Good, TermRec, SameText
  <2> QED
    BY <1>1, <2>1, <2>2, <2>3 DEF Good, save_cursor
<1>2. CASE ~save
  <2> DEFINE c == [x |-> Min2(t.savecurs.x, t.cols - 1),
                   y |-> Min2(t.savecurs.y, t.rows - 1)]
             w == t.save_wnext /\ ~(c.x < t.cols - 1)
  <2>1. /\ t.cols \in Lengths /\ t.rows \in Lengths
        /\ t.savecurs \in Pos /\ OnScreen(t, t.savecurs)
    BY DEF Good, TermRec, Cursors
  <2>2. c \in Pos /\ OnScreen(t, c)
    BY <2>1 DEF Min2, Pos, OnScreen, Lengths
  <2>3. w \in BOOLEAN
    OBVIOUS
  <2>4. save_cursor(t, save) = SetCursor(t, c, w)
    BY <1>2 DEF save_cursor, SetCursor
  <2> HIDE DEF c, w
  <2> QED
    BY <2>2, <2>3, <2>4, CursorGood
<1> QED
  BY <1>1, <1>2

-----------------------------------------------------------------------------
(* Functions that change the text.                                         *)

\* Text of the same size is kept from the main screen when the alternate one
\* is in use.
LEMMA IsolatedProps ==
  ASSUME NEW t, NEW u
  PROVE  /\ SameText(t, u) => Isolated(t, u)
         /\ \A v : Isolated(t, u) /\ SameText(u, v) => Isolated(t, v)
         /\ \A v : SameText(t, u) /\ Isolated(u, v) => Isolated(t, v)
         /\ \A v : SameText(t, u) /\ SameText(u, v) => SameText(t, v)
  BY DEF SameText, Isolated, MainScreen

\* A line that has scrolled off goes into the scrollback: the limit holds, and
\* what a resize may pull back is part of it.
LEMMA PushGood ==
  ASSUME NEW t, Good(t), NEW lines \in Lines
  PROVE  Good(Push(t, lines)) /\ (~t.alt_which => Isolated(t, Push(t, lines)))
<1> DEFINE all == t.scrollback \o lines
           k   == Min2(Len(all), t.savelines)
           sbk == LastN(all, k)
           tmp == t.tempsblines + (Len(sbk) - Len(t.scrollback))
           top == IF t.disptop < 0
                  THEN Max2(t.disptop - Len(lines), Min2(t.disptop, -t.savelines))
                  ELSE t.disptop
           u == [t EXCEPT !.scrollback = sbk, !.tempsblines = tmp, !.disptop = top]
<1>1. /\ t.scrollback \in Lines /\ t.savelines \in Nat /\ t.tempsblines \in Nat
      /\ t.disptop \in Int /\ Bounded(t)
  BY DEF Good, TermRec
<1>2. /\ all \in Lines /\ Len(all) = Len(t.scrollback) + Len(lines)
      /\ Len(t.scrollback) \in Nat /\ Len(lines) \in Nat
  BY <1>1, JoinProps
<1>3. /\ k \in 0 .. Len(all) /\ k <= t.savelines /\ k >= Len(t.scrollback)
  BY <1>1, <1>2 DEF Min2, Bounded
<1>4. sbk \in Lines /\ Len(sbk) = k
  <2> HIDE DEF all, k
  <2> QED
    BY <1>2, <1>3, LastProps
<1>5. tmp \in Nat /\ tmp <= Len(sbk) /\ Len(sbk) <= t.savelines
  <2> HIDE DEF all, k, sbk
  <2> QED
    BY <1>1, <1>2, <1>3, <1>4 DEF Bounded
<1>6. top \in Int
  BY <1>1, <1>2 DEF Max2, Min2
<1>7. Push(t, lines) = u
  BY DEF Push
<1> HIDE DEF all, k, sbk, tmp, top
<1>8. u \in TermRec
  BY <1>4, <1>5, <1>6 DEF Good, TermRec
<1>9. Filled(u) /\ Cursors(u) /\ Margins(u) /\ Bounded(u)
  BY <1>5 DEF Good, TermRec, Filled, Cursors, Margins, Bounded, OnScreen, Region
<1> QED
  BY <1>7, <1>8, <1>9 DEF Good, Isolated

\* What scroll() makes of the lines s of the screen, scrolling up and down.
ScrolledUp(s, top, bot, n) ==
    LET reg == SubSeq(s, top + 1, bot + 1)
    IN  FirstN(s, top) \o LastN(reg, Len(reg) - n) \o Blanks(n)
          \o SubSeq(s, bot + 2, Len(s))

ScrolledDown(s, top, bot, n) ==
    LET reg == SubSeq(s, top + 1, bot + 1)
    IN  FirstN(s, top) \o Blanks(n) \o FirstN(reg, Len(reg) - n)
          \o SubSeq(s, bot + 2, Len(s))

ScrolledOff(s, top, bot, n) == FirstN(SubSeq(s, top + 1, bot + 1), n)

\* The pieces scroll() cuts the screen into make a screen of the same size.
LEMMA ScrollParts ==
  ASSUME NEW s \in Lines, NEW top \in Nat, NEW bot \in Nat, top <= bot,
         bot < Len(s), NEW n \in 0 .. bot - top + 1
  PROVE  /\ ScrolledUp(s, top, bot, n) \in Lines
         /\ Len(ScrolledUp(s, top, bot, n)) = Len(s)
         /\ ScrolledDown(s, top, bot, n) \in Lines
         /\ Len(ScrolledDown(s, top, bot, n)) = Len(s)
         /\ ScrolledOff(s, top, bot, n) \in Lines
<1> DEFINE head == FirstN(s, top)
           reg  == SubSeq(s, top + 1, bot + 1)
           tail == SubSeq(s, bot + 2, Len(s))
           rest == LastN(reg, Len(reg) - n)
           kept == FirstN(reg, Len(reg) - n)
           blank == Blanks(n)
<1>0. Len(s) \in Nat
  BY LenProperties DEF Lines
<1>1. head \in Lines /\ Len(head) = top
  BY <1>0, FirstProps
<1>2. reg \in Lines /\ Len(reg) = bot - top + 1
  <2>1. /\ top + 1 \in Int /\ bot + 1 \in Int /\ 1 <= top + 1
        /\ bot + 1 <= Len(s) /\ top + 1 <= (bot + 1) + 1
    BY <1>0
  <2>2. reg \in Lines /\ Len(reg) = (bot + 1) - (top + 1) + 1
    BY <2>1, PartProps
  <2> QED
    BY <2>2
<1>3. tail \in Lines /\ Len(tail) = Len(s) - bot - 1
  <2>1. /\ bot + 2 \in Int /\ Len(s) \in Int /\ 1 <= bot + 2
        /\ Len(s) <= Len(s) /\ bot + 2 <= Len(s) + 1
    BY <1>0
  <2>2. tail \in Lines /\ Len(tail) = Len(s) - (bot + 2) + 1
    BY <2>1, PartProps
  <2> QED
    BY <1>0, <2>2
<1> HIDE DEF head, reg, tail
<1>4. Len(reg) - n \in 0 .. Len(reg) /\ n \in 0 .. Len(reg) /\ n \in Nat
  BY <1>2
<1>5. /\ rest \in Lines /\ Len(rest) = Len(reg) - n
      /\ kept \in Lines /\ Len(kept) = Len(reg) - n
      /\ FirstN(reg, n) \in Lines
  BY <1>2, <1>4, LastProps, FirstProps
<1>6. blank \in Lines /\ Len(blank) = n
  BY <1>4, BlanksProps
<1> HIDE DEF rest, kept, blank
<1>7. /\ ((head \o rest) \o blank) \o tail \in Lines
      /\ Len(((head \o rest) \o blank) \o tail) =
            ((Len(head) + Len(rest)) + Len(blank)) + Len(tail)
  <2>1. head \o rest \in Lines /\ Len(head \o rest) = Len(head) + Len(rest)
    BY <1>1, <1>5, JoinProps
  <2>2. /\ (head \o rest) \o blank \in Lines
        /\ Len((head \o rest) \o blank) = (Len(head) + Len(rest)) + Len(blank)
    BY <1>6, <2>1, JoinProps
  <2> QED
    BY <1>3, <2>2, JoinProps
<1>8. /\ ((head \o blank) \o kept) \o tail \in Lines
      /\ Len(((head \o blank) \o kept) \o tail) =
            ((Len(head) + Len(blank)) + Len(kept)) + Len(tail)
  <2>1. head \o blank \in Lines /\ Len(head \o blank) = Len(head) + Len(blank)
    BY <1>1, <1>6, JoinProps
  <2>2. /\ (head \o blank) \o kept \in Lines
        /\ Len((head \o blank) \o kept) = (Len(head) + Len(blank)) + Len(kept)
    BY <1>5, <2>1, JoinProps
  <2> QED
    BY <1>3, <2>2, JoinProps
<1>9. /\ ((Len(head) + Len(rest)) + Len(blank)) + Len(tail) = Len(s)
      /\ ((Len(head) + Len(blank)) + Len(kept)) + Len(tail) = Len(s)
  BY <1>0, <1>1, <1>2, <1>3, <1>4, <1>5, <1>6
<1> QED
  BY <1>5, <1>7, <1>8, <1>9
  DEF head, reg, tail, rest, kept, blank, ScrolledUp, ScrolledDown, ScrolledOff

\* scroll(), up or down, with or without the scrollback.
LEMMA ScrollGood ==
  ASSUME NEW t, Good(t), NEW top \in Int, NEW bot \in Int, Region(t, top, bot),
         NEW lines \in Int, NEW sb \in BOOLEAN
  PROVE  /\ Good(scroll(t, top, bot, lines, sb))
         /\ Isolated(t, scroll(t, top, bot, lines, sb))
<1> DEFINE n == Min2(IF lines < 0 THEN -lines ELSE lines, bot - top + 1)
           up   == ScrolledUp(t.screen, top, bot, n)
           down == ScrolledDown(t.screen, top, bot, n)
           off  == ScrolledOff(t.screen, top, bot, n)
           keep == sb /\ top = 0 /\ ~t.alt_which /\ t.savelines > 0
<1>1. /\ t.screen \in Lines /\ t.rows \in Lengths /\ Len(t.screen) = t.rows
      /\ t.alt_which \in BOOLEAN
  BY DEF Good, TermRec, Filled
<1>2. /\ top \in Nat /\ bot \in Nat /\ top <= bot /\ bot < Len(t.screen)
      /\ n \in 0 .. bot - top + 1
  BY <1>1 DEF Region, Min2, Lengths
<1>3. /\ up \in Lines /\ Len(up) = t.rows
      /\ down \in Lines /\ Len(down) = t.rows
      /\ off \in Lines
  <2> HIDE DEF n
  <2> QED
    BY <1>1, <1>2, ScrollParts
<1>4. scroll(t, top, bot, lines, sb) =
         IF lines < 0 THEN SetScreen(t, down)
         ELSE IF keep THEN Push(SetScreen(t, up), off)
         ELSE SetScreen(t, up)
  BY <1>1 DEF scroll, SetScreen, ScrolledUp, ScrolledDown, ScrolledOff
<1> HIDE DEF n, up, down, off
<1>5. /\ Good(SetScreen(t, up)) /\ Isolated(t, SetScreen(t, up))
      /\ Good(SetScreen(t, down)) /\ Isolated(t, SetScreen(t, down))
  BY <1>3, ScreenGood
<1>6. keep => /\ Good(Push(SetScreen(t, up), off))
              /\ Isolated(t, Push(SetScreen(t, up), off))
  BY <1>3, <1>5, PushGood DEF Isolated
<1> QED
  BY <1>4, <1>5, <1>6

\* Down one row, scrolling at the margin.
LEMMA IndexGood ==
  ASSUME NEW t, Good(t)
  PROVE  Good(Index(t)) /\ Isolated(t, Index(t))
<1>1. /\ t.marg_t \in Int /\ t.marg_b \in Int /\ Region(t, t.marg_t, t.marg_b)
      /\ t.curs \in Pos /\ OnScreen(t, t.curs) /\ t.rows \in Lengths
  BY DEF Good, TermRec, Margins, Cursors
<1>2. CASE t.curs.y = t.marg_b
  <2>1. Index(t) = scroll(t, t.marg_t, t.marg_b, 1, TRUE)
    BY <1>2 DEF Index
  <2>2. 1 \in Int
    OBVIOUS
  <2> QED
    BY <1>1, <2>1, <2>2, ScrollGood, Zenon
<1>3. CASE t.curs.y # t.marg_b
  <2> DEFINE y == Min2(t.curs.y + 1, t.rows - 1)
  <2>1. y \in 0 .. t.rows - 1
    BY <1>1 DEF Min2, Pos, OnScreen, Lengths
  <2>2. Index(t) = [t EXCEPT !.curs.y = y]
    BY <1>3 DEF Index, Good, TermRec
  <2> HIDE DEF y
  <2>3. Good(Index(t)) /\ SameText(t, Index(t))
    BY <2>1, <2>2, RowGood
  <2> QED
    BY <2>3, IsolatedProps
<1> QED
  BY <1>2, <1>3

SetTemp(t, n) == [t EXCEPT !.tempsblines = n]

\* Lines that a resize may no longer pull back.
LEMMA TempGood ==
  ASSUME NEW t, Good(t)
  PROVE  Good(SetTemp(t, 0)) /\ SameText(t, SetTemp(t, 0))
<1> DEFINE u == SetTemp(t, 0)
<1>1. u \in TermRec
  BY DEF Good, TermRec, SetTemp
<1>2. Len(t.scrollback) \in Nat
  BY LenProperties DEF Good, TermRec, Lines
<1>3. Filled(u) /\ Cursors(u) /\ Margins(u) /\ Bounded(u)
  BY <1>2
  DEF Good, TermRec, Filled, Cursors, Margins, Bounded, OnScreen, Region, SetTemp
<1>4. SameText(t, u)
  BY DEF Good, TermRec, SameText, SetTemp
<1> QED
  BY <1>1, <1>3, <1>4 DEF Good

\* erase_lots() of the whole screen, plainly or into the scrollback.
LEMMA EraseAllGood ==
  ASSUME NEW t, Good(t)
  PROVE  Good(EraseAll(t)) /\ Isolated(t, EraseAll(t))
<1> DEFINE n == find_last_nonempty_line(t.screen)
           e == IF ~t.erase_to_scrollback THEN SetScreen(t, Blanks(t.rows))
                ELSE IF n > 0 THEN scroll(t, 0, n - 1, n, TRUE) ELSE t
<1>1. /\ t.screen \in Lines /\ t.rows \in Lengths /\ Len(t.screen) = t.rows
      /\ t.alt_which \in BOOLEAN
  BY DEF Good, TermRec, Filled
<1>2. n \in 0 .. t.rows
  BY <1>1, LastNonempty
<1>3. Good(SetScreen(t, Blanks(t.rows))) /\ Isolated(t, SetScreen(t, Blanks(t.rows)))
  BY <1>1, BlanksProps, ScreenGood DEF Lengths
<1> HIDE DEF n
<1>4. n > 0 => /\ Good(scroll(t, 0, n - 1, n, TRUE))
               /\ Isolated(t, scroll(t, 0, n - 1, n, TRUE))
  <2>1. n > 0 => /\ 0 \in Int /\ n - 1 \in Int /\ n \in Int /\ TRUE \in BOOLEAN
                 /\ Region(t, 0, n - 1)
    BY <1>1, <1>2 DEF Region, Lengths
  <2> QED
    BY <2>1, ScrollGood, Zenon
<1>5. Good(e) /\ Isolated(t, e)
  BY <1>3, <1>4 DEF Isolated
<1>6. EraseAll(t) = IF t.alt_which THEN e ELSE SetTemp(e, 0)
  BY DEF EraseAll, SetTemp, SetScreen, n
<1> HIDE DEF e
<1>7. Good(SetTemp(e, 0)) /\ SameText(e, SetTemp(e, 0))
  BY <1>5, TempGood
<1>8. Isolated(t, SetTemp(e, 0))
  BY <1>5, <1>7, IsolatedProps
<1> QED
  BY <1>5, <1>6, <1>7, <1>8

\* erase_lots() of part of the screen.
LEMMA ErasePartGood ==
  ASSUME NEW t, Good(t), NEW from, NEW to, NEW left \in BOOLEAN
  PROVE  Good(ErasePart(t, from, to, left)) /\ Isolated(t, ErasePart(t, from, to, left))
<1> DEFINE s == [i \in 1 .. t.rows |->
                    IF i - 1 = t.curs.y THEN left
                    ELSE IF i - 1 \in from .. to THEN FALSE ELSE t.screen[i]]
<1>1. t.screen \in Lines /\ t.rows \in Nat /\ Len(t.screen) = t.rows
  BY DEF Good, TermRec, Filled, Lengths
<1>2. \A i \in 1 .. t.rows : t.screen[i] \in BOOLEAN
  BY <1>1, ElementOfSeq DEF Lines
<1>3. s \in [1 .. t.rows -> BOOLEAN]
  BY <1>2
<1>4. ErasePart(t, from, to, left) = SetScreen(t, s)
  BY DEF ErasePart, SetScreen, Good, TermRec
<1> HIDE DEF s
<1> QED
  BY <1>1, <1>3, <1>4, FunctionIsLines, ScreenGood

\* term_clrsb() empties the scrollback and leaves both screens alone.
LEMMA ClrsbGood ==
  ASSUME NEW t, Good(t)
  PROVE  LET u == term_clrsb(t)
         IN  /\ Good(u) /\ u.disptop = 0
             /\ u.screen = t.screen /\ u.alt_screen = t.alt_screen
             /\ u.alt_which = t.alt_which
<1> DEFINE z == << >>
           o == 0
           u == [t EXCEPT !.disptop = o, !.scrollback = z, !.tempsblines = o,
                          !.alt_sblines = o]
<1>1. z \in Lines /\ Len(z) = o /\ o \in Nat /\ o \in Int
  BY EmptySeq DEF Lines
<1>2. term_clrsb(t) = u
  BY DEF term_clrsb
<1> HIDE DEF z, o
<1>3. u \in TermRec
  <2> DEFINE v == [t EXCEPT !.disptop = o, !.scrollback = z]
  <2>0. t \in TermRec
    BY DEF Good
  <2>1. v \in TermRec
    BY <1>1, <2>0 DEF TermRec
  <2>2. u = [v EXCEPT !.tempsblines = o, !.alt_sblines = o]
    OBVIOUS
  <2> HIDE DEF u, v
  <2> QED
    BY <1>1, <2>1, <2>2 DEF TermRec
<1>4. Filled(u) /\ Cursors(u) /\ Margins(u) /\ Bounded(u)
  <2>1. Filled(u) /\ Cursors(u) /\ Margins(u)
    BY DEF Good, TermRec, Filled, Cursors, Margins, OnScreen, Region
  <2>2. /\ u.tempsblines = 0 /\ u.scrollback = z /\ u.savelines = t.savelines
        /\ t.savelines \in Nat
    BY DEF Good, TermRec, o
  <2> QED
    BY <1>1, <2>1, <2>2 DEF Bounded, o
<1>5. /\ u.disptop = 0 /\ u.screen = t.screen /\ u.alt_screen = t.alt_screen
      /\ u.alt_which = t.alt_which
  BY DEF Good, TermRec, o
<1> QED
  BY <1>2, <1>3, <1>4, <1>5 DEF Good

\* The screens change places: what is kept for each of them stays good.
LEMMA ExchangeGood ==
  ASSUME NEW t, Good(t), NEW reset \in BOOLEAN, NEW keep \in BOOLEAN
  PROVE  LET u == Exchange(t, reset, keep)
         IN  /\ Good(u) /\ u.alt_which = ~t.alt_which
             /\ u.rows = t.rows /\ u.cols = t.cols /\ u.savelines = t.savelines
             /\ u.screen = t.alt_screen /\ u.alt_screen = t.screen
             /\ u.scrollback = t.scrollback /\ u.tempsblines = t.tempsblines
             /\ u.disptop = t.disptop
<1> DEFINE n == AltLines(t.screen)
           u == [t EXCEPT
                  !.alt_which = ~t.alt_which,
                  !.screen = t.alt_screen, !.alt_screen = t.screen,
                  !.alt_sblines = n,
                  !.curs = IF keep THEN t.curs ELSE t.alt_curs, !.alt_curs = t.curs,
                  !.marg_t = IF reset THEN t.marg_t ELSE t.alt_t, !.alt_t = t.marg_t,
                  !.marg_b = IF reset THEN t.marg_b ELSE t.alt_b, !.alt_b = t.marg_b,
                  !.dec_om = IF reset THEN t.dec_om ELSE t.alt_om, !.alt_om = t.dec_om,
                  !.wrap = IF reset THEN t.wrap ELSE t.alt_wrap, !.alt_wrap = t.wrap,
                  !.wrapnext = IF reset THEN t.wrapnext ELSE t.alt_wnext,
                  !.alt_wnext = t.wrapnext,
                  !.savecurs = IF keep THEN t.savecurs ELSE t.alt_savecurs,
                  !.alt_savecurs = t.savecurs,
                  !.save_wnext = IF keep THEN t.save_wnext ELSE t.alt_save_wnext,
                  !.alt_save_wnext = t.save_wnext]
<1>1. t.screen \in Lines /\ t.rows \in Lengths /\ Len(t.screen) = t.rows
  BY DEF Good, TermRec, Filled
<1>2. n \in Nat
  BY <1>1, LastNonempty DEF AltLines, Lengths
<1>3. Exchange(t, reset, keep) = u
  BY DEF Exchange, Good, TermRec
<1> HIDE DEF n
<1>4. u \in TermRec
  <2> DEFINE a == [t EXCEPT !.alt_which = ~t.alt_which, !.screen = t.alt_screen,
                            !.alt_screen = t.screen]
             b == [a EXCEPT !.alt_sblines = n,
                            !.curs = IF keep THEN t.curs ELSE t.alt_curs,
                            !.alt_curs = t.curs]
             c == [b EXCEPT !.marg_t = IF reset THEN t.marg_t ELSE t.alt_t,
                            !.alt_t = t.marg_t]
             d == [c EXCEPT !.marg_b = IF reset THEN t.marg_b ELSE t.alt_b,
                            !.alt_b = t.marg_b]
             e == [d EXCEPT !.dec_om = IF reset THEN t.dec_om ELSE t.alt_om,
                            !.alt_om = t.dec_om]
             f == [e EXCEPT !.wrap = IF reset THEN t.wrap ELSE t.alt_wrap,
                            !.alt_wrap = t.wrap]
             g == [f EXCEPT !.wrapnext = IF reset THEN t.wrapnext ELSE t.alt_wnext,
                            !.alt_wnext = t.wrapnext]
             h == [g EXCEPT !.savecurs = IF keep THEN t.savecurs ELSE t.alt_savecurs,
                            !.alt_savecurs = t.savecurs]
  <2>0. t \in TermRec
    BY DEF Good
  <2>1. a \in TermRec
    BY <2>0 DEF TermRec
  <2>2. b \in TermRec
    <3> HIDE DEF a
    <3> QED
      BY <1>2, <2>0, <2>1 DEF TermRec
  <2>3. c \in TermRec
    <3> HIDE DEF b
    <3> QED
      BY <2>0, <2>2 DEF TermRec
  <2>4. d \in TermRec
    <3> HIDE DEF c
    <3> QED
      BY <2>0, <2>3 DEF TermRec
  <2>5. e \in TermRec
    <3> HIDE DEF d
    <3> QED
      BY <2>0, <2>4 DEF TermRec
  <2>6. f \in TermRec
    <3> HIDE DEF e
    <3> QED
      BY <2>0, <2>5 DEF TermRec
  <2>7. g \in TermRec
    <3> HIDE DEF f
    <3> QED
      BY <2>0, <2>6 DEF TermRec
  <2>8. h \in TermRec
    <3> HIDE DEF g
    <3> QED
      BY <2>0, <2>7 DEF TermRec
  <2>9. u = [h EXCEPT !.save_wnext = IF keep THEN t.save_wnext ELSE t.alt_save_wnext,
                      !.alt_save_wnext = t.save_wnext]
    OBVIOUS
  <2> HIDE DEF u, h
  <2> QED
    BY <2>0, <2>8, <2>9 DEF TermRec
<1>5. /\ u.alt_which = ~t.alt_which
      /\ u.rows = t.rows /\ u.cols = t.cols /\ u.savelines = t.savelines
      /\ u.screen = t.alt_screen /\ u.alt_screen = t.screen
      /\ u.scrollback = t.scrollback /\ u.tempsblines = t.tempsblines
      /\ u.disptop = t.disptop
      /\ u.curs = (IF keep THEN t.curs ELSE t.alt_curs) /\ u.alt_curs = t.curs
      /\ u.savecurs = (IF keep THEN t.savecurs ELSE t.alt_savecurs)
      /\ u.alt_savecurs = t.savecurs
      /\ u.marg_t = (IF reset THEN t.marg_t ELSE t.alt_t) /\ u.alt_t = t.marg_t
      /\ u.marg_b = (IF reset THEN t.marg_b ELSE t.alt_b) /\ u.alt_b = t.marg_b
      /\ u.cramped = t.cramped
  BY DEF Good, TermRec
<1> HIDE DEF u
<1>6. Filled(u) /\ Cursors(u) /\ Margins(u) /\ Bounded(u)
  BY <1>5 DEF Good, Filled, Cursors, Margins, Bounded, OnScreen, Region
<1> QED
  BY <1>3, <1>4, <1>5, <1>6 DEF Good

\* swap_screen(), whichever screen is asked for.
LEMMA SwapGood ==
  ASSUME NEW t, Good(t), NEW which \in BOOLEAN, NEW reset \in BOOLEAN,
         NEW keep \in BOOLEAN
  PROVE  LET u == swap_screen(t, which, reset, keep)
         IN  Good(u) /\ Isolated(t, u)
<1> DEFINE r == which /\ reset
           k == r \/ keep
           x == Exchange(t, r, k)
           v == IF which # t.alt_which THEN x ELSE t
<1>1. r \in BOOLEAN /\ k \in BOOLEAN
  OBVIOUS
<1>2. swap_screen(t, which, reset, keep) = IF r THEN EraseAll(v) ELSE v
  BY DEF swap_screen
<1>3. t.alt_which \in BOOLEAN
  BY DEF Good, TermRec
<1> HIDE DEF r, k
<1>4. /\ Good(x) /\ x.alt_which = ~t.alt_which /\ x.screen = t.alt_screen
      /\ x.scrollback = t.scrollback
  BY <1>1, ExchangeGood
<1> HIDE DEF x
<1>5. Good(v) /\ Isolated(t, v)
  BY <1>3, <1>4 DEF Isolated, MainScreen
<1>6. r /\ t.alt_which => v = t
  BY <1>3 DEF r
<1> HIDE DEF v
<1>7. Good(EraseAll(v)) /\ Isolated(v, EraseAll(v))
  BY <1>5, EraseAllGood
<1>8. r => Isolated(t, EraseAll(v))
  BY <1>3, <1>6, <1>7 DEF Isolated
<1> QED
  BY <1>2, <1>5, <1>7, <1>8

\* swap_screen() as term_size() calls it: nothing but an exchange of screens.
LEMMA SwapPlain ==
  ASSUME NEW t, Good(t), NEW which \in BOOLEAN
  PROVE  LET u == swap_screen(t, which, FALSE, FALSE)
         IN  /\ Good(u) /\ u.alt_which = which
             /\ u.rows = t.rows /\ u.cols = t.cols /\ u.savelines = t.savelines
             /\ u.scrollback = t.scrollback /\ u.tempsblines = t.tempsblines
             /\ u.disptop = t.disptop
             /\ t.alt_which = which => u = t
<1> DEFINE u == Exchange(t, FALSE, FALSE)
<1>1. t.alt_which \in BOOLEAN
  BY DEF Good, TermRec
<1>2. swap_screen(t, which, FALSE, FALSE) = IF which # t.alt_which THEN u ELSE t
  BY DEF swap_screen
<1>3. FALSE \in BOOLEAN
  OBVIOUS
<1>4. /\ Good(u) /\ u.alt_which = ~t.alt_which
      /\ u.rows = t.rows /\ u.cols = t.cols /\ u.savelines = t.savelines
      /\ u.scrollback = t.scrollback /\ u.tempsblines = t.tempsblines
      /\ u.disptop = t.disptop
  BY <1>3, ExchangeGood, Zenon
<1> HIDE DEF u
<1> QED
  BY <1>1, <1>2, <1>4

-----------------------------------------------------------------------------
(* Resizing.                                                               *)

\* What both loops of term_size() change.
SetRows(t, r, s, sb, n) ==
    [t EXCEPT !.rows = r, !.screen = s, !.scrollback = sb, !.tempsblines = n]
ShiftAll(t, d) ==
    [t EXCEPT !.curs = ShiftY(@, d), !.savecurs = ShiftY(@, d),
              !.alt_curs = ShiftY(@, d), !.alt_savecurs = ShiftY(@, d)]

\* What term_size() changes after its loops.
CutRows(t, r, c, sl, k) ==
    [t EXCEPT !.cols = c, !.savelines = sl, !.scrollback = LastN(@, k),
              !.tempsblines = Min2(@, k)]
ResetRows(t, r) ==
    [t EXCEPT !.disptop = 0, !.alt_screen = Blanks(r), !.alt_sblines = 0,
              !.marg_t = 0, !.alt_t = 0, !.marg_b = r - 1, !.alt_b = r - 1]
ClampAll(t, r, c) ==
    [t EXCEPT !.curs = ClampPos(@, r, c), !.savecurs = ClampPos(@, r, c),
              !.alt_savecurs = ClampPos(@, r, c), !.alt_curs = Origin,
              !.wrapnext = FALSE, !.alt_wnext = FALSE]

\* Moving a cursor by some rows, and back into the window.
LEMMA ShiftProps ==
  ASSUME NEW p \in Pos, NEW d \in Int
  PROVE  ShiftY(p, d) \in Pos /\ ShiftY(p, d).x = p.x /\ ShiftY(p, d).y = p.y + d
  BY DEF ShiftY, Pos

\* A clamped position is in the window, or left of it if it was.
LEMMA ClampPosProps ==
  ASSUME NEW p \in Pos, NEW r \in Lengths, NEW c \in Lengths
  PROVE  /\ ClampPos(p, r, c) \in Pos
         /\ ClampPos(p, r, c).x < c /\ ClampPos(p, r, c).y \in 0 .. r - 1
         /\ p.x >= 0 => ClampPos(p, r, c).x >= 0
  BY DEF ClampPos, Pos, Clamp, Min2, Max2, Lengths

\* The cursors are left of no column, unless a line was cramped.
LeftEdge(t) == \/ t.cramped
               \/ /\ t.curs.x >= 0 /\ t.savecurs.x >= 0
                  /\ t.alt_curs.x >= 0 /\ t.alt_savecurs.x >= 0

\* New rows for a terminal: not yet a good one, but all the rest is typed.
LEMMA RowsProps ==
  ASSUME NEW t, Good(t), NEW r \in Lengths, NEW s \in Lines, NEW sb \in Lines,
         NEW n \in Nat, NEW d \in Int
  PROVE  LET u == ShiftAll(SetRows(t, r, s, sb, n), d)
         IN  /\ u \in TermRec /\ LeftEdge(u)
             /\ u.rows = r /\ u.screen = s /\ u.scrollback = sb /\ u.tempsblines = n
             /\ u.curs = ShiftY(t.curs, d) /\ u.alt_which = t.alt_which
<1> DEFINE v == SetRows(t, r, s, sb, n)
           u == ShiftAll(v, d)
<1>0. t \in TermRec
  BY DEF Good
<1>1. /\ t.curs \in Pos /\ t.savecurs \in Pos /\ t.alt_curs \in Pos
      /\ t.alt_savecurs \in Pos
  BY <1>0 DEF TermRec
<1>2. v \in TermRec
  BY <1>0 DEF TermRec, SetRows
<1>3. /\ v.rows = r /\ v.screen = s /\ v.scrollback = sb /\ v.tempsblines = n
      /\ v.curs = t.curs /\ v.savecurs = t.savecurs
      /\ v.alt_curs = t.alt_curs /\ v.alt_savecurs = t.alt_savecurs
      /\ v.alt_which = t.alt_which /\ v.cramped = t.cramped
  BY <1>0 DEF TermRec, SetRows
<1> HIDE DEF v
<1>4. /\ ShiftY(v.curs, d) \in Pos /\ ShiftY(v.savecurs, d) \in Pos
      /\ ShiftY(v.alt_curs, d) \in Pos /\ ShiftY(v.alt_savecurs, d) \in Pos
      /\ ShiftY(v.curs, d).x = t.curs.x /\ ShiftY(v.savecurs, d).x = t.savecurs.x
      /\ ShiftY(v.alt_curs, d).x = t.alt_curs.x
      /\ ShiftY(v.alt_savecurs, d).x = t.alt_savecurs.x
  BY SMTT(30), <1>1, <1>3, ShiftProps
<1>5. u \in TermRec
  BY <1>2, <1>4 DEF TermRec, ShiftAll
<1>6. /\ u.rows = v.rows /\ u.screen = v.screen /\ u.scrollback = v.scrollback
      /\ u.tempsblines = v.tempsblines /\ u.alt_which = v.alt_which
      /\ u.curs = ShiftY(v.curs, d) /\ u.savecurs = ShiftY(v.savecurs, d)
      /\ u.alt_curs = ShiftY(v.alt_curs, d) /\ u.alt_savecurs = ShiftY(v.alt_savecurs, d)
      /\ u.cramped = v.cramped
  BY <1>2 DEF TermRec, ShiftAll
<1>7. LeftEdge(t)
  BY DEF Good, TermRec, Cursors, OnScreen, LeftEdge, Lengths
<1> HIDE DEF u
<1>8. LeftEdge(u)
  BY <1>3, <1>4, <1>6, <1>7 DEF LeftEdge
<1> QED
  BY <1>3, <1>5, <1>6, <1>8 DEF u, v

\* Growing: the lines pulled back, the screen and blank lines fill the window.
LEMMA GrowProps ==
  ASSUME NEW t, Good(t), NEW r \in Lengths, r > t.rows
  PROVE  LET u == GrowRows(t, r)
             p == Min2(r - t.rows, t.tempsblines)
         IN  /\ u \in TermRec /\ LeftEdge(u) /\ u.alt_which = t.alt_which
             /\ u.rows = r /\ Len(u.screen) = r
             /\ u.tempsblines <= Len(u.scrollback)
             /\ u.screen = LastN(t.scrollback, p) \o t.screen
                              \o Blanks(r - t.rows - p)
             /\ u.scrollback = FirstN(t.scrollback, Len(t.scrollback) - p)
             /\ u.tempsblines = t.tempsblines - p
             /\ u.curs = ShiftY(t.curs, p)
<1> DEFINE d == r - t.rows
           p == Min2(d, t.tempsblines)
           n == Len(t.scrollback)
           top == LastN(t.scrollback, p)
           fill == Blanks(d - p)
           s == top \o t.screen \o fill
           sb == FirstN(t.scrollback, n - p)
           tmp == t.tempsblines - p
           u == ShiftAll(SetRows(t, r, s, sb, tmp), p)
<1>0. GrowRows(t, r) = u
  BY DEF GrowRows, SetRows, ShiftAll, Good, TermRec
<1>1. /\ t.screen \in Lines /\ t.rows \in Lengths /\ Len(t.screen) = t.rows
      /\ t.scrollback \in Lines /\ n \in Nat /\ t.tempsblines \in Nat
      /\ t.tempsblines <= n
  BY LenProperties DEF Good, TermRec, Filled, Bounded, Lines
<1>2. d \in Nat /\ p \in 0 .. d /\ p <= t.tempsblines
  BY <1>1 DEF Min2, Lengths
<1> HIDE DEF p
<1>3. p \in 0 .. n /\ n - p \in 0 .. n /\ d - p \in Nat /\ p \in Int
  BY <1>1, <1>2
<1>4. /\ top \in Lines /\ Len(top) = p /\ sb \in Lines /\ Len(sb) = n - p
  <2> HIDE DEF n
  <2>1. p \in 0 .. Len(t.scrollback) /\ n - p \in 0 .. Len(t.scrollback)
    BY <1>3 DEF n
  <2> QED
    BY <1>1, <2>1, LastProps, FirstProps
<1>5. fill \in Lines /\ Len(fill) = d - p
  BY <1>3, BlanksProps
<1> HIDE DEF top, fill, sb
<1>6. s \in Lines /\ Len(s) = Len(top) + Len(t.screen) + Len(fill)
  <2>1. top \o t.screen \in Lines /\ Len(top \o t.screen) = Len(top) + Len(t.screen)
    BY <1>1, <1>4, JoinProps
  <2> QED
    BY <1>5, <2>1, JoinProps
<1>7. Len(s) = r
  BY <1>1, <1>2, <1>4, <1>5, <1>6 DEF Lengths
<1> HIDE DEF s
<1>8. tmp \in Nat /\ tmp <= Len(sb)
  BY <1>1, <1>2, <1>4
<1> HIDE DEF tmp, n
<1>9. /\ u \in TermRec /\ LeftEdge(u)
      /\ u.rows = r /\ u.screen = s /\ u.scrollback = sb /\ u.tempsblines = tmp
      /\ u.curs = ShiftY(t.curs, p) /\ u.alt_which = t.alt_which
  BY <1>3, <1>4, <1>6, <1>8, RowsProps
<1> HIDE DEF u, d
<1> QED
  BY <1>0, <1>7, <1>8, <1>9 DEF s, sb, tmp, n, top, fill, p, d

\* Shrinking: rows go from below the cursor, then off the top.
LEMMA ShrinkProps ==
  ASSUME NEW t, Good(t), NEW r \in Lengths, r <= t.rows
  PROVE  LET u == ShrinkRows(t, r)
             del == Min2(t.rows - r, t.rows - 1 - t.curs.y)
             p == t.rows - r - del
         IN  /\ u \in TermRec /\ LeftEdge(u) /\ u.alt_which = t.alt_which
             /\ u.rows = r /\ Len(u.screen) = r
             /\ u.tempsblines <= Len(u.scrollback)
             /\ u.screen = SubSeq(t.screen, p + 1, t.rows - del)
             /\ u.scrollback = t.scrollback \o FirstN(t.screen, p)
             /\ u.tempsblines = t.tempsblines + p
             /\ u.curs = ShiftY(t.curs, -p)
<1> DEFINE d == t.rows - r
           del == Min2(d, t.rows - 1 - t.curs.y)
           p == d - del
           off == FirstN(t.screen, p)
           s == SubSeq(t.screen, p + 1, t.rows - del)
           sb == t.scrollback \o off
           tmp == t.tempsblines + p
           u == ShiftAll(SetRows(t, r, s, sb, tmp), -p)
<1>0. ShrinkRows(t, r) = u
  BY DEF ShrinkRows, SetRows, ShiftAll, Good, TermRec
<1>1. /\ t.screen \in Lines /\ t.rows \in Lengths /\ Len(t.screen) = t.rows
      /\ t.scrollback \in Lines /\ Len(t.scrollback) \in Nat /\ t.tempsblines \in Nat
      /\ t.tempsblines <= Len(t.scrollback)
      /\ t.curs \in Pos /\ t.curs.y \in 0 .. t.rows - 1
  BY LenProperties DEF Good, TermRec, Filled, Bounded, Lines, Cursors, OnScreen
<1>2. d \in Nat /\ d < t.rows /\ del \in 0 .. d /\ t.rows \in Int /\ r \in Int
  BY SMTT(30), <1>1 DEF Min2, Lengths
<1> HIDE DEF del
<1>3. p \in 0 .. d /\ -p \in Int /\ p \in 0 .. t.rows
  <2> HIDE DEF d
  <2>1. p \in 0 .. d /\ d \in Int
    BY <1>2
  <2> HIDE DEF p
  <2> QED
    BY <1>2, <2>1
<1>4. off \in Lines /\ Len(off) = p
  <2> HIDE DEF p
  <2> QED
    BY <1>1, <1>3, FirstProps
<1>5. s \in Lines /\ Len(s) = r
  <2> DEFINE a == p + 1
             b == t.rows - del
  <2>0. a \in Int /\ b \in Int /\ 1 <= a /\ b <= t.rows
    BY <1>2, <1>3
  <2>1. /\ a \in Int /\ b \in Int /\ 1 <= a /\ b <= Len(t.screen) /\ a <= b + 1
        /\ b - a + 1 = r
    <3>1. b - a + 1 = r /\ r \in Nat
      BY <1>2
    <3> HIDE DEF a, b
    <3> QED
      BY <1>1, <1>2, <2>0, <3>1
  <2> HIDE DEF a, b
  <2>2. SubSeq(t.screen, a, b) \in Lines /\ Len(SubSeq(t.screen, a, b)) = r
    BY <1>1, <2>1, PartProps
  <2> QED
    BY <2>2 DEF a, b
<1> HIDE DEF off, s
<1>6. sb \in Lines /\ Len(sb) = Len(t.scrollback) + p
  BY ZenonT(60), <1>1, <1>4, JoinProps
<1> HIDE DEF sb
<1>7. tmp \in Nat /\ tmp <= Len(sb)
  BY <1>1, <1>3, <1>6
<1> HIDE DEF tmp, p
<1>8. /\ u \in TermRec /\ LeftEdge(u)
      /\ u.rows = r /\ u.screen = s /\ u.scrollback = sb /\ u.tempsblines = tmp
      /\ u.curs = ShiftY(t.curs, -p) /\ u.alt_which = t.alt_which
  BY <1>3, <1>5, <1>6, <1>7, RowsProps
<1> HIDE DEF u, d
<1> QED
  BY <1>0, <1>5, <1>7, <1>8 DEF s, sb, tmp, off, p, del, d

\* A typed terminal with r rows of text is good again after the cuts and the
\* clamping at the end of term_size().
Cut(t, r, c, sl) ==
    ClampAll(ResetRows(CutRows(t, r, c, sl, Min2(Len(t.scrollback), sl)), r), r, c)

\* Cut makes such a terminal good; what it cuts is the oldest of the scrollback.
LEMMA CutGood ==
  ASSUME NEW t \in TermRec, LeftEdge(t), NEW r \in Lengths, NEW c \in Lengths,
         NEW sl \in Nat, t.rows = r, Len(t.screen) = r,
         t.tempsblines <= Len(t.scrollback)
  PROVE  LET u == Cut(t, r, c, sl)
             k == Min2(Len(t.scrollback), sl)
         IN  /\ Good(u) /\ u.disptop = 0 /\ u.alt_which = t.alt_which
             /\ u.rows = r /\ u.cols = c /\ u.savelines = sl
             /\ u.screen = t.screen /\ u.scrollback = LastN(t.scrollback, k)
             /\ u.tempsblines = Min2(t.tempsblines, k)
             /\ u.curs = ClampPos(t.curs, r, c)
<1> DEFINE k == Min2(Len(t.scrollback), sl)
           sb == LastN(t.scrollback, k)
           n == Min2(t.tempsblines, k)
           v == [t EXCEPT !.cols = c, !.savelines = sl, !.scrollback = sb,
                          !.tempsblines = n]
           b == Blanks(r)
           o == 0
           m == r - 1
           x == [v EXCEPT !.disptop = o, !.alt_screen = b, !.alt_sblines = o,
                          !.marg_t = o]
           w == [x EXCEPT !.alt_t = o, !.marg_b = m, !.alt_b = m]
           pc == ClampPos(w.curs, r, c)
           ps == ClampPos(w.savecurs, r, c)
           pa == ClampPos(w.alt_savecurs, r, c)
           y == [w EXCEPT !.curs = pc, !.savecurs = ps, !.alt_savecurs = pa]
           z == Origin
           u == [y EXCEPT !.alt_curs = z, !.wrapnext = FALSE, !.alt_wnext = FALSE]
<1>0. Cut(t, r, c, sl) = u
  BY DEF Cut, CutRows, ResetRows, ClampAll, TermRec
<1>1. t.scrollback \in Lines /\ Len(t.scrollback) \in Nat /\ t.tempsblines \in Nat
  BY LenProperties DEF TermRec, Lines
<1>2. k \in 0 .. Len(t.scrollback) /\ k <= sl /\ n \in Nat /\ n <= k
  BY <1>1 DEF Min2
<1>3. sb \in Lines /\ Len(sb) = k
  <2> HIDE DEF k
  <2> QED
    BY <1>1, <1>2, LastProps
<1>4. b \in Lines /\ Len(b) = r /\ o \in Nat /\ o \in Int /\ m \in Int
  <2>1. r \in Nat /\ m \in Int
    BY DEF Lengths
  <2>2. b \in Lines /\ Len(b) = r
    BY <2>1, BlanksProps
  <2> QED
    BY <2>1, <2>2
<1>5. z \in Pos
  BY DEF Origin, Pos
<1> HIDE DEF n, sb, b, o, m, z
<1>6. v \in TermRec
  BY <1>2, <1>3 DEF TermRec
<1>7. /\ v.rows = r /\ v.cols = c /\ v.savelines = sl /\ v.screen = t.screen
      /\ v.scrollback = sb /\ v.tempsblines = n /\ v.alt_which = t.alt_which
      /\ v.curs = t.curs /\ v.savecurs = t.savecurs
      /\ v.alt_savecurs = t.alt_savecurs /\ v.cramped = t.cramped
  BY DEF TermRec
<1> HIDE DEF v
<1>8. x \in TermRec
  BY <1>4, <1>6 DEF TermRec
<1>9. w \in TermRec
  <2> HIDE DEF x
  <2> QED
    BY <1>4, <1>8 DEF TermRec
<1>10. /\ w.rows = r /\ w.cols = c /\ w.savelines = sl /\ w.screen = t.screen
       /\ w.scrollback = sb /\ w.tempsblines = n /\ w.alt_which = t.alt_which
       /\ w.curs = t.curs /\ w.savecurs = t.savecurs
       /\ w.alt_savecurs = t.alt_savecurs /\ w.disptop = o /\ w.alt_screen = b
       /\ w.marg_t = o /\ w.alt_t = o /\ w.marg_b = m /\ w.alt_b = m
       /\ w.cramped = t.cramped
  BY <1>6, <1>7 DEF TermRec
<1> HIDE DEF x, w
<1>11. /\ pc = ClampPos(t.curs, r, c) /\ pc \in Pos
       /\ pc.x < c /\ pc.y \in 0 .. r - 1
       /\ ps \in Pos /\ ps.x < c /\ ps.y \in 0 .. r - 1
       /\ pa \in Pos /\ pa.x < c /\ pa.y \in 0 .. r - 1
       /\ t.cramped \/ (pc.x >= 0 /\ ps.x >= 0 /\ pa.x >= 0)
  <2>1. t.curs \in Pos /\ t.savecurs \in Pos /\ t.alt_savecurs \in Pos
    BY DEF TermRec
  <2>2. \/ t.cramped
        \/ t.curs.x >= 0 /\ t.savecurs.x >= 0 /\ t.alt_savecurs.x >= 0
    BY DEF LeftEdge
  <2> QED
    BY <1>10, <2>1, <2>2, ClampPosProps
<1> HIDE DEF pc, ps, pa
<1>12. y \in TermRec
  BY <1>9, <1>11 DEF TermRec
<1>13. u \in TermRec
  <2> HIDE DEF y
  <2> QED
    BY <1>5, <1>12 DEF TermRec
<1>14. /\ u.rows = w.rows /\ u.cols = w.cols /\ u.savelines = w.savelines
       /\ u.screen = w.screen /\ u.alt_screen = w.alt_screen
       /\ u.scrollback = w.scrollback /\ u.tempsblines = w.tempsblines
       /\ u.alt_which = w.alt_which /\ u.disptop = w.disptop
       /\ u.curs = pc /\ u.savecurs = ps /\ u.alt_savecurs = pa /\ u.alt_curs = z
       /\ u.marg_t = w.marg_t /\ u.alt_t = w.alt_t
       /\ u.marg_b = w.marg_b /\ u.alt_b = w.alt_b
       /\ u.cramped = w.cramped
  BY <1>9 DEF TermRec
<1> HIDE DEF u
<1>15. Filled(u)
  BY <1>4, <1>10, <1>14 DEF Filled
<1>16. Cursors(u)
  <2>1. z.x < c /\ z.x >= 0 /\ z.y \in 0 .. r - 1
    BY DEF z, Origin, Lengths
  <2> QED
    BY <1>10, <1>11, <1>14, <2>1 DEF Cursors, OnScreen
<1>17. Margins(u)
  <2>1. Region(u, u.marg_t, u.marg_b)
    BY <1>10, <1>14 DEF Region, m, o, Lengths
  <2>2. u.alt_t = u.marg_t /\ u.alt_b = u.marg_b
    BY <1>10, <1>14
  <2> QED
    BY <2>1, <2>2 DEF Margins
<1>18. Bounded(u)
  BY <1>2, <1>3, <1>10, <1>14 DEF Bounded
<1>19. /\ Good(u) /\ u.disptop = 0 /\ u.alt_which = t.alt_which
       /\ u.rows = r /\ u.cols = c /\ u.savelines = sl
       /\ u.screen = t.screen /\ u.scrollback = sb /\ u.tempsblines = n
       /\ u.curs = ClampPos(t.curs, r, c)
  BY <1>10, <1>11, <1>13, <1>14, <1>15, <1>16, <1>17, <1>18 DEF Good, o
<1> QED
  BY <1>0, <1>19 DEF sb, n

\* term_size(): the loops, the cuts, and the screen that was in use.
LEMMA SizeGood ==
  ASSUME NEW t, Good(t), NEW nr \in Nat, NEW nc \in Nat, NEW sl \in Nat
  PROVE  LET u == term_size(t, nr, nc, sl)
         IN  Good(u) /\ (u = t \/ u.disptop = 0)
<1> DEFINE r == Max2(nr, 1)
           c == Max2(nc, 1)
           t0 == swap_screen(t, FALSE, FALSE, FALSE)
           t1 == IF r > t.rows THEN GrowRows(t0, r) ELSE ShrinkRows(t0, r)
           t2 == Cut(t1, r, c, sl)
           v == swap_screen(t2, t.alt_which, FALSE, FALSE)
<1>1. r \in Lengths /\ c \in Lengths
  BY DEF Max2, Lengths
<1>2. term_size(t, nr, nc, sl) =
        IF nr = t.rows /\ nc = t.cols /\ sl = t.savelines THEN t ELSE v
  BY DEF term_size, Cut, CutRows, ResetRows, ClampAll
<1>3. t.alt_which \in BOOLEAN /\ t.rows \in Lengths /\ FALSE \in BOOLEAN
  BY DEF Good, TermRec
<1>4. Good(t0) /\ t0.rows = t.rows
  BY <1>3, SwapPlain, Zenon
<1> HIDE DEF r, c, t0
<1>5. /\ t1 \in TermRec /\ LeftEdge(t1) /\ t1.rows = r /\ Len(t1.screen) = r
      /\ t1.tempsblines <= Len(t1.scrollback)
  <2>1. CASE r > t.rows
    BY <1>1, <1>4, <2>1, GrowProps
  <2>2. CASE ~(r > t.rows)
    <3>1. r <= t0.rows
      BY <1>1, <1>3, <1>4, <2>2 DEF Lengths
    <3> QED
      BY <1>1, <1>4, <2>2, <3>1, ShrinkProps
  <2> QED
    BY <2>1, <2>2
<1> HIDE DEF t1
<1>6. Good(t2) /\ t2.disptop = 0
  BY <1>1, <1>5, CutGood
<1> HIDE DEF t2
<1>7. Good(v) /\ v.disptop = 0
  BY ZenonT(60), <1>3, <1>6, SwapPlain
<1> HIDE DEF v
<1> QED
  BY <1>2, <1>7

-----------------------------------------------------------------------------
(* Reset.                                                                  *)

\* The settings power_on() gives both screens, before it erases any.
Fresh(t) ==
    [t EXCEPT
        !.alt_curs = Origin, !.savecurs = Origin, !.alt_savecurs = Origin,
        !.marg_t = 0, !.alt_t = 0,
        !.marg_b = t.rows - 1, !.alt_b = t.rows - 1,
        !.dec_om = t.conf_dec_om, !.alt_om = t.conf_dec_om,
        !.wrap = t.conf_wrap_mode, !.alt_wrap = t.conf_wrap_mode,
        !.wrapnext = FALSE, !.alt_wnext = FALSE,
        !.save_wnext = FALSE, !.alt_save_wnext = FALSE, !.alt_which = FALSE]

\* They are good settings.
LEMMA FreshGood ==
  ASSUME NEW t, Good(t)
  PROVE  Good(Fresh(t)) /\ Fresh(t).rows = t.rows
<1> DEFINE z == Origin
           o == 0
           m == t.rows - 1
           no == FALSE
           om == t.conf_dec_om
           wm == t.conf_wrap_mode
           a == [t EXCEPT !.alt_curs = z, !.savecurs = z, !.alt_savecurs = z]
           b == [a EXCEPT !.marg_t = o, !.alt_t = o, !.marg_b = m, !.alt_b = m]
           c == [b EXCEPT !.dec_om = om, !.alt_om = om, !.wrap = wm, !.alt_wrap = wm]
           d == [c EXCEPT !.wrapnext = no, !.alt_wnext = no]
           u == [d EXCEPT !.save_wnext = no, !.alt_save_wnext = no, !.alt_which = no]
<1>0. Fresh(t) = u
  BY DEF Fresh
<1>1. t \in TermRec
  BY DEF Good
<1>2. t.rows \in Lengths /\ t.cols \in Lengths
  BY <1>1 DEF TermRec
<1>3. z \in Pos /\ OnScreen(t, z)
  BY <1>2 DEF Origin, Pos, OnScreen, Lengths
<1>4. /\ o \in Int /\ m \in Int /\ no \in BOOLEAN
      /\ om \in BOOLEAN /\ wm \in BOOLEAN
  BY <1>1, <1>2 DEF Lengths, TermRec
<1>5. Region(t, o, m)
  BY <1>2 DEF Lengths, Region
<1> HIDE DEF z, o, m, no, om, wm
<1>6. a \in TermRec
  BY <1>1, <1>3 DEF TermRec
<1>7. b \in TermRec
  <2> HIDE DEF a
  <2> QED
    BY <1>4, <1>6 DEF TermRec
<1>8. c \in TermRec
  <2> HIDE DEF b
  <2> QED
    BY <1>4, <1>7 DEF TermRec
<1>9. d \in TermRec
  <2> HIDE DEF c
  <2> QED
    BY <1>4, <1>8 DEF TermRec
<1>10. u \in TermRec
  <2> HIDE DEF d
  <2> QED
    BY <1>4, <1>9 DEF TermRec
<1>11. /\ u.rows = t.rows /\ u.cols = t.cols /\ u.savelines = t.savelines
       /\ u.screen = t.screen /\ u.alt_screen = t.alt_screen
       /\ u.scrollback = t.scrollback /\ u.tempsblines = t.tempsblines
       /\ u.curs = t.curs /\ u.savecurs = z /\ u.alt_curs = z /\ u.alt_savecurs = z
       /\ u.marg_t = o /\ u.alt_t = o /\ u.marg_b = m /\ u.alt_b = m
       /\ u.cramped = t.cramped
  BY <1>1 DEF TermRec
<1> HIDE DEF u
<1>12. Filled(u) /\ Cursors(u) /\ Margins(u) /\ Bounded(u)
  BY <1>3, <1>5, <1>11 DEF Good, Filled, Cursors, Margins, Bounded, OnScreen, Region
<1> QED
  BY <1>0, <1>10, <1>11, <1>12 DEF Good

\* power_on() leaves a good terminal, whichever screen was in use.
LEMMA PowerOnGood ==
  ASSUME NEW t, Good(t), NEW clear \in BOOLEAN
  PROVE  Good(power_on(t, clear))
<1> DEFINE t0 == Fresh(t)
           s1 == swap_screen(t0, TRUE, FALSE, FALSE)
           t1 == EraseAll(s1)
           t2 == swap_screen(t1, FALSE, FALSE, FALSE)
           t3 == IF clear THEN EraseAll(t2) ELSE t2
           y == find_last_nonempty_line(t3.screen)
           t4 == IF y = t3.rows THEN scroll(t3, 0, t3.rows - 1, 1, TRUE) ELSE t3
           p == [x |-> 0, y |-> Min2(y, t3.rows - 1)]
<1>1. Good(t0)
  BY FreshGood
<1>2. power_on(t, clear) = [t4 EXCEPT !.curs = p]
  BY DEF power_on, Fresh
<1> HIDE DEF t0
<1>3. TRUE \in BOOLEAN /\ FALSE \in BOOLEAN /\ 0 \in Int /\ 1 \in Int
  OBVIOUS
<1>4. Good(s1)
  BY <1>1, <1>3, SwapPlain, Zenon
<1> HIDE DEF s1
<1>5. Good(t1)
  BY <1>4, EraseAllGood
<1> HIDE DEF t1
<1>6. Good(t2)
  BY <1>3, <1>5, SwapPlain, Zenon
<1> HIDE DEF t2
<1>7. Good(t3)
  BY <1>6, EraseAllGood
<1> HIDE DEF t3
<1>8. /\ t3.rows \in Lengths /\ t3.cols \in Lengths
      /\ t3.screen \in Lines /\ Len(t3.screen) = t3.rows
  BY <1>7 DEF Good, TermRec, Filled
<1>9. y \in 0 .. t3.rows
  BY <1>8, LastNonempty
<1>10. Region(t3, 0, t3.rows - 1) /\ t3.rows - 1 \in Int
  BY <1>8 DEF Region, Lengths
<1>11. Good(scroll(t3, 0, t3.rows - 1, 1, TRUE))
  BY <1>3, <1>7, <1>10, ScrollGood, Zenon
<1>12. scroll(t3, 0, t3.rows - 1, 1, TRUE).rows = t3.rows
       /\ scroll(t3, 0, t3.rows - 1, 1, TRUE).cols = t3.cols
  BY <1>7 DEF scroll, Push, Good, TermRec
<1> HIDE DEF y
<1>13. Good(t4) /\ t4.rows = t3.rows /\ t4.cols = t3.cols
  BY <1>7, <1>11, <1>12
<1> HIDE DEF t4
<1>14. p \in Pos /\ OnScreen(t4, p)
  BY <1>8, <1>9, <1>13 DEF Pos, OnScreen, Min2, Lengths
<1> HIDE DEF p
<1>15. [t4 EXCEPT !.curs = p] = SetCursor(t4, p, t4.wrapnext) /\ t4.wrapnext \in BOOLEAN
  BY <1>13 DEF SetCursor, Good, TermRec
<1> QED
  BY <1>2, <1>13, <1>14, <1>15, CursorGood

-----------------------------------------------------------------------------
(* The operations.                                                         *)

\* The view of u exists, or is that of t.
Viewable(t, u) ==
    ScrollOnDisp =>
        \/ u.seen_disp_event
        \/ u.disptop >= -sblines(u)
        \/ /\ u.disptop = t.disptop /\ sblines(u) = sblines(t)
           /\ u.seen_disp_event = t.seen_disp_event
        \/ ~(t.seen_disp_event \/ t.disptop >= -sblines(t))

\* What an operation that is no reset and no resize makes of a terminal.
Allowed(t, u) == Good(u) /\ Isolated(t, u) /\ Viewable(t, u)

\* The scrollback has no negative size.
LEMMA SblinesNat ==
  ASSUME NEW t, Good(t)
  PROVE  sblines(t) \in Nat
<1>1. Len(t.scrollback) \in Nat /\ t.alt_sblines \in Nat
  BY LenProperties DEF Good, TermRec, Lines
<1> QED
  BY <1>1 DEF sblines

\* What keeps the view without repainting it.
KeepsView(t, u) ==
    /\ u.seen_disp_event = t.seen_disp_event
    /\ t.disptop >= -sblines(t) => u.disptop >= -sblines(u)

\* A view into the scrollback follows the lines that are pushed into it.
LEMMA PushView ==
  ASSUME NEW t, Good(t), NEW lines \in Lines, ~t.alt_which
  PROVE  KeepsView(t, Push(t, lines))
<1> DEFINE all == t.scrollback \o lines
           k   == Min2(Len(all), t.savelines)
           sbk == LastN(all, k)
           tmp == t.tempsblines + (Len(sbk) - Len(t.scrollback))
           top == IF t.disptop < 0
                  THEN Max2(t.disptop - Len(lines), Min2(t.disptop, -t.savelines))
                  ELSE t.disptop
           u == [t EXCEPT !.scrollback = sbk, !.tempsblines = tmp, !.disptop = top]
<1>1. /\ t.scrollback \in Lines /\ t.savelines \in Nat /\ t.disptop \in Int
      /\ Len(t.scrollback) <= t.savelines
  BY DEF Good, TermRec, Bounded
<1>2. /\ all \in Lines /\ Len(all) = Len(t.scrollback) + Len(lines)
      /\ Len(t.scrollback) \in Nat /\ Len(lines) \in Nat
  BY <1>1, JoinProps
<1>3. k \in 0 .. Len(all)
  BY <1>1, <1>2 DEF Min2
<1>4. sbk \in Lines /\ Len(sbk) = k
  <2> HIDE DEF all, k
  <2> QED
    BY <1>2, <1>3, LastProps
<1>5. t.disptop >= -Len(t.scrollback) => top >= -k
  <2> HIDE DEF all
  <2> QED
    BY <1>1, <1>2 DEF Max2, Min2
<1>6. Push(t, lines) = u
  BY DEF Push
<1> HIDE DEF all, k, sbk, tmp, top
<1>7. /\ u.scrollback = sbk /\ u.disptop = top /\ u.alt_which = FALSE
      /\ u.seen_disp_event = t.seen_disp_event
  BY DEF Good, TermRec
<1> HIDE DEF u
<1> QED
  BY <1>4, <1>5, <1>6, <1>7 DEF KeepsView, sblines

\* Erasing the whole screen keeps it too.
LEMMA EraseAllView ==
  ASSUME NEW t, Good(t)
  PROVE  KeepsView(t, EraseAll(t))
<1> DEFINE n == find_last_nonempty_line(t.screen)
           e == IF ~t.erase_to_scrollback THEN SetScreen(t, Blanks(t.rows))
                ELSE IF n > 0 THEN scroll(t, 0, n - 1, n, TRUE) ELSE t
           up == ScrolledUp(t.screen, 0, n - 1, n)
           off == ScrolledOff(t.screen, 0, n - 1, n)
           keep == ~t.alt_which /\ t.savelines > 0
<1>1. /\ t.screen \in Lines /\ t.rows \in Lengths /\ Len(t.screen) = t.rows
      /\ t.alt_which \in BOOLEAN
  BY DEF Good, TermRec, Filled
<1>2. n \in 0 .. t.rows
  BY <1>1, LastNonempty
<1>3. EraseAll(t) = IF t.alt_which THEN e ELSE SetTemp(e, 0)
  BY DEF EraseAll, SetTemp, SetScreen
<1> HIDE DEF n
<1> DEFINE v == SetScreen(t, up)
           w == SetScreen(t, Blanks(t.rows))
<1>4. ASSUME n > 0, t.erase_to_scrollback PROVE Good(e) /\ KeepsView(t, e)
  <2>1. /\ 0 \in Nat /\ n - 1 \in Nat /\ 0 <= n - 1 /\ n - 1 < Len(t.screen)
        /\ n \in 0 .. (n - 1) - 0 + 1 /\ ~(n < 0) /\ Min2(n, (n - 1) - 0 + 1) = n
    BY <1>1, <1>2, <1>4 DEF Lengths, Min2
  <2>2. up \in Lines /\ Len(up) = t.rows /\ off \in Lines
    BY <1>1, <2>1, ScrollParts
  <2>3. e = IF keep THEN Push(v, off) ELSE v
    BY <1>1, <1>4, <2>1 DEF scroll, SetScreen, ScrolledUp, ScrolledOff
  <2> HIDE DEF up, off, e
  <2>4. Good(v) /\ v.alt_which = t.alt_which /\ KeepsView(t, v)
    BY <2>2, ScreenGood DEF KeepsView, sblines, SetScreen, Good, TermRec
  <2> HIDE DEF v
  <2>5. keep => Good(Push(v, off)) /\ KeepsView(v, Push(v, off))
    BY <2>2, <2>4, PushView, PushGood
  <2> QED
    BY <2>3, <2>4, <2>5 DEF KeepsView
<1>5. ASSUME ~(n > 0 /\ t.erase_to_scrollback) PROVE Good(e) /\ KeepsView(t, e)
  <2>1. e = t \/ e = w
    BY <1>5
  <2>2. KeepsView(t, t) /\ KeepsView(t, w)
    BY DEF KeepsView, SetScreen, sblines, Good, TermRec
  <2>3. Good(w)
    BY <1>1, BlanksProps, ScreenGood DEF Lengths
  <2> HIDE DEF e, w
  <2> QED
    BY <2>1, <2>2, <2>3
<1>6. Good(e) /\ KeepsView(t, e)
  <2> HIDE DEF e
  <2> QED
    BY <1>4, <1>5
<1> HIDE DEF e
<1>7. KeepsView(e, SetTemp(e, 0))
  BY <1>6 DEF KeepsView, SetTemp, sblines, Good, TermRec
<1> QED
  BY <1>3, <1>6, <1>7 DEF KeepsView

\* An operation that ends in seen_disp_event().
LEMMA SeenStep ==
  ASSUME NEW t, NEW u, Good(u)
  PROVE  /\ Isolated(t, u) => Allowed(t, seen_disp_event(u))
         /\ SameText(t, u) => Allowed(t, seen_disp_event(u))
<1>1. /\ Good(seen_disp_event(u)) /\ SameText(u, seen_disp_event(u))
      /\ seen_disp_event(u).seen_disp_event = TRUE
  BY SeenGood
<1>2. SameText(t, u) => Isolated(t, u)
  BY IsolatedProps
<1>3. Isolated(t, u) => Isolated(t, seen_disp_event(u))
  BY <1>1, IsolatedProps
<1> QED
  BY <1>1, <1>2, <1>3 DEF Allowed, Viewable

\* An operation that ends by resetting the view.
LEMMA ResetStep ==
  ASSUME NEW t, NEW u, Good(u), Isolated(t, u)
  PROVE  Allowed(t, ResetView(u)) /\ Allowed(t, seen_disp_event(ResetView(u)))
<1>1. /\ Good(ResetView(u)) /\ SameText(u, ResetView(u))
      /\ ScrollOnDisp => ResetView(u).disptop = 0
  BY ResetViewGood
<1>2. Isolated(t, ResetView(u))
  BY <1>1, IsolatedProps
<1>3. sblines(ResetView(u)) \in Nat
  BY <1>1, SblinesNat
<1>4. Viewable(t, ResetView(u))
  BY <1>1, <1>3 DEF Viewable
<1> QED
  BY <1>1, <1>2, <1>4, SeenStep DEF Allowed

\* An operation that touches neither text nor view.
SameView(t, u) ==
    /\ SameText(t, u) /\ u.disptop = t.disptop /\ u.alt_sblines = t.alt_sblines
    /\ u.erase_to_scrollback = t.erase_to_scrollback
    /\ u.seen_disp_event = t.seen_disp_event

\* It is allowed.
LEMMA QuietStep ==
  ASSUME NEW t, NEW u, Good(u), SameView(t, u)
  PROVE  Allowed(t, u)
<1>1. Isolated(t, u)
  BY IsolatedProps DEF SameView
<1>2. Viewable(t, u)
  BY DEF SameView, SameText, Viewable, sblines
<1> QED
  BY <1>1, <1>2 DEF Allowed

\* The first thing a character does: the wrap that was pending.
LEMMA WrapGood ==
  ASSUME NEW t, Good(t)
  PROVE  LET u == [Index(t) EXCEPT !.curs.x = 0, !.wrapnext = FALSE]
         IN  Good(u) /\ Isolated(t, u) /\ u.alt_which = t.alt_which
<1>0. Index(t).alt_which = t.alt_which
  BY DEF Index, scroll, Push, Good, TermRec
<1> DEFINE i == Index(t)
           u == [i EXCEPT !.curs.x = 0, !.wrapnext = FALSE]
<1>1. Good(i) /\ Isolated(t, i)
  BY IndexGood
<1> HIDE DEF i
<1>2. 0 \in 0 .. i.cols - 1
  BY <1>1 DEF Good, TermRec, Lengths
<1>3. FALSE \in BOOLEAN
  OBVIOUS
<1>4. Good(u) /\ SameText(i, u)
  BY <1>1, <1>2, <1>3, ColumnGood, Zenon
<1> HIDE DEF u
<1>5. Good(u) /\ Isolated(t, u) /\ u.alt_which = i.alt_which
  BY <1>1, <1>4, IsolatedProps DEF SameText
<1> QED
  BY <1>0, <1>5 DEF u, i

\* A character goes on a line of the screen, and the cursor stays on it.
LEMMA DisplayCharAllowed ==
  ASSUME Good(term), DisplayChar
  PROVE  Allowed(term, term')
<1>1. PICK b \in BOOLEAN, trusted \in BOOLEAN :
        LET t0 == IF term.wrapnext /\ term.wrap
                  THEN [Index(term) EXCEPT !.curs.x = 0, !.wrapnext = FALSE]
                  ELSE term
            linecols == IF trusted THEN t0.cols - TRUST_SIGIL_WIDTH ELSE t0.cols
            full == t0.curs.x + 1 >= linecols
        IN  term' = seen_disp_event([t0 EXCEPT
                    !.screen[t0.curs.y + 1] = b,
                    !.curs.x = IF full THEN linecols - 1 ELSE @ + 1,
                    !.wrapnext = IF full THEN TRUE ELSE @,
                    !.cramped = @ \/ linecols <= 0])
  BY DEF DisplayChar, Do, Step
<1> DEFINE t0 == IF term.wrapnext /\ term.wrap
                 THEN [Index(term) EXCEPT !.curs.x = 0, !.wrapnext = FALSE]
                 ELSE term
           linecols == IF trusted THEN t0.cols - TRUST_SIGIL_WIDTH ELSE t0.cols
           full == t0.curs.x + 1 >= linecols
           j == t0.curs.y + 1
<1>2. Good(t0) /\ Isolated(term, t0) /\ t0.alt_which = term.alt_which
  BY WrapGood DEF Isolated
<1> HIDE DEF t0
<1> DEFINE s == [t0.screen EXCEPT ![j] = b]
           x == IF full THEN linecols - 1 ELSE t0.curs.x + 1
           w == IF full THEN TRUE ELSE t0.wrapnext
           tight == linecols <= 0
           p == [x |-> x, y |-> t0.curs.y]
           v == SetScreen(t0, s)
           c == SetCramped(v, tight)
           u == SetCursor(c, p, w)
<1>3. /\ t0.screen \in Lines /\ t0.rows \in Lengths /\ Len(t0.screen) = t0.rows
      /\ t0.cols \in Lengths /\ t0.curs \in Pos
      /\ t0.curs.x < t0.cols /\ t0.curs.y \in 0 .. t0.rows - 1
      /\ t0.curs.x >= 0 \/ t0.cramped
      /\ t0.wrapnext \in BOOLEAN /\ t0.cramped \in BOOLEAN
  BY <1>2 DEF Good, TermRec, Filled, Cursors, OnScreen
<1>4. j \in 1 .. Len(t0.screen)
  BY <1>3 DEF Lengths
<1>6. s \in Lines /\ Len(s) = t0.rows
  <2> HIDE DEF j
  <2> QED
    BY <1>3, <1>4, ExceptSeq DEF Lines
<1>7. /\ x \in Int /\ x < t0.cols /\ (x >= 0 \/ (t0.cramped \/ tight))
      /\ w \in BOOLEAN /\ tight \in BOOLEAN
  <2>1. linecols \in Int /\ linecols <= t0.cols
    BY <1>3 DEF Lengths, TRUST_SIGIL_WIDTH
  <2> HIDE DEF linecols
  <2>2. x \in Int /\ x < t0.cols /\ (x >= 0 \/ (t0.cramped \/ tight))
    BY <1>3, <2>1 DEF Lengths, Pos
  <2>3. w \in BOOLEAN
    <3> HIDE DEF full
    <3> QED
      BY <1>3, Zenon
  <2>4. tight \in BOOLEAN
    BY <2>1
  <2> QED
    BY <2>2, <2>3, <2>4
<1>8. [t0 EXCEPT !.screen[j] = b,
                 !.curs.x = IF full THEN linecols - 1 ELSE @ + 1,
                 !.wrapnext = IF full THEN TRUE ELSE @,
                 !.cramped = @ \/ linecols <= 0] = u
  <2>1. [t0.curs EXCEPT !.x = x] = p
    BY <1>3 DEF Pos
  <2> HIDE DEF j, full, linecols, p
  <2> QED
    BY <1>2, <2>1 DEF SetScreen, SetCursor, SetCramped, Good, TermRec
<1> HIDE DEF s, x, w, tight
<1>9. Good(v) /\ Isolated(t0, v) /\ v.rows = t0.rows /\ v.cols = t0.cols
      /\ v.scrollback = t0.scrollback /\ v.alt_which = t0.alt_which
      /\ v.alt_screen = t0.alt_screen /\ v.cramped = t0.cramped
  <2>1. Good(v) /\ Isolated(t0, v)
    BY <1>2, <1>6, ScreenGood
  <2> QED
    BY <1>2, <2>1 DEF SetScreen, Good, TermRec
<1> HIDE DEF v
<1>10. /\ Good(c) /\ SameText(v, c) /\ c.rows = t0.rows /\ c.cols = t0.cols
       /\ t0.cramped \/ tight => c.cramped
  BY <1>7, <1>9, CrampedGood
<1> HIDE DEF c
<1>11. p \in Pos /\ OnScreen(c, p)
  BY <1>3, <1>7, <1>10 DEF Pos, OnScreen, Lengths
<1> HIDE DEF p
<1>12. Good(u) /\ SameText(c, u)
  BY <1>7, <1>10, <1>11, CursorGood
<1>13. Isolated(term, u)
  <2>1. Isolated(term, v)
    BY <1>2, <1>9 DEF Isolated, MainScreen
  <2> HIDE DEF u
  <2> QED
    BY <1>10, <1>12, <2>1, IsolatedProps
<1>14. term' = seen_disp_event(u)
  BY <1>1, <1>8 DEF t0
<1> HIDE DEF u
<1> QED
  BY <1>12, <1>13, <1>14, SeenStep

\* Cursor movement: CR, BS, HT, CBT, CUU and its kin, CUP.
LEMMA MotionAllowed ==
  ASSUME Good(term), CR \/ BS \/ HT \/ CBT \/ CursorRel \/ CUP
  PROVE  Allowed(term, term')
<1>0. /\ term.cols \in Lengths /\ term.rows \in Lengths /\ term.curs \in Pos
      /\ term.curs.x < term.cols /\ term.curs.y \in 0 .. term.rows - 1
      /\ term.curs.x >= 0 \/ term.cramped
      /\ term.wrapnext \in BOOLEAN /\ term.marg_t \in Int
      /\ term.curs.x \in Int /\ term.curs.y \in Int
  BY DEF Good, TermRec, Cursors, OnScreen, Pos
<1>z. /\ 0 \in 0 .. term.cols - 1 /\ FALSE \in BOOLEAN
      /\ 0 \in Int /\ 1 \in Int /\ 2 \in Int
  BY <1>0 DEF Lengths
<1>1. CASE CR
  <2> DEFINE u == [term EXCEPT !.curs.x = 0, !.wrapnext = FALSE]
  <2>1. term' = seen_disp_event(u)
    BY <1>1 DEF CR, Do, Step
  <2>2. Good(u) /\ SameText(term, u)
    BY <1>z, ColumnGood, Zenon
  <2> HIDE DEF u
  <2> QED
    BY <2>1, <2>2, SeenStep
<1>2. CASE BS
  <2> DEFINE c == term.curs
             p == [x |-> term.cols - 1, y |-> c.y - 1]
             q == c.x - 1
             u == IF c.x = 0 /\ (c.y = 0 \/ ~term.wrap) THEN term
                  ELSE IF c.x = 0 THEN [term EXCEPT !.curs = p]
                  ELSE IF term.wrapnext THEN [term EXCEPT !.wrapnext = FALSE]
                  ELSE [term EXCEPT !.curs.x = q]
  <2>1. term' = seen_disp_event(u)
    BY <1>2 DEF BS, Do, Step, Good, TermRec
  <2>2. c.x # 0 => q \in Int /\ q < term.cols /\ (q >= 0 \/ term.cramped)
    BY <1>0 DEF Lengths
  <2>3. c.y # 0 => p \in Pos /\ OnScreen(term, p)
    BY <1>0 DEF Lengths, Pos, OnScreen
  <2>4. [term EXCEPT !.curs = p] = SetCursor(term, p, term.wrapnext)
    BY DEF SetCursor, Good, TermRec
  <2> HIDE DEF p, q
  <2>5. c.y # 0 => Good([term EXCEPT !.curs = p]) /\ SameText(term, [term EXCEPT !.curs = p])
    BY <1>0, <2>3, <2>4, CursorGood
  <2>6. c.x # 0 => /\ Good([term EXCEPT !.curs.x = q])
                   /\ SameText(term, [term EXCEPT !.curs.x = q])
    BY <1>z, <2>2, ColumnAt
  <2>7. /\ Good([term EXCEPT !.wrapnext = FALSE])
        /\ SameText(term, [term EXCEPT !.wrapnext = FALSE])
    BY <1>z, ColumnGood, Zenon
  <2>8. Good(u) /\ SameText(term, u)
    BY <2>5, <2>6, <2>7, Zenon DEF SameText
  <2> HIDE DEF u
  <2> QED
    BY <2>1, <2>8, SeenStep
<1>3. CASE HT
  <2>1. PICK x \in term.curs.x + 1 .. Max2(term.curs.x + 1, term.cols - 1),
             double \in BOOLEAN :
           LET last == (IF double THEN term.cols \div 2 ELSE term.cols) - 1
           IN  term' = seen_disp_event([term EXCEPT !.curs.x = Min2(x, last),
                                                    !.cramped = @ \/ last < 0])
    BY <1>3 DEF HT, Do, Step
  <2> DEFINE last == (IF double THEN term.cols \div 2 ELSE term.cols) - 1
             tight == last < 0
             q == Min2(x, last)
             c == SetCramped(term, tight)
             u == [c EXCEPT !.curs.x = q]
  <2>a. term' = seen_disp_event([term EXCEPT !.curs.x = q, !.cramped = @ \/ tight])
    BY <2>1
  <2>2. last \in Int /\ last < term.cols /\ x \in Int /\ x > term.curs.x
    BY <1>0, <2>1 DEF Max2, Lengths
  <2> HIDE DEF last
  <2>3. [term EXCEPT !.curs.x = q, !.cramped = @ \/ tight] = u
    BY DEF SetCramped, Good, TermRec
  <2>4. tight \in BOOLEAN
    BY <2>2
  <2>5. q \in Int /\ q < term.cols /\ (q >= 0 \/ (term.cramped \/ tight))
    <3>1. term.cols \in Int
      BY <1>0 DEF Lengths
    <3>2. q \in {x, last} /\ q \in Int /\ q < term.cols
      BY <2>2, <3>1 DEF Min2
    <3>3. CASE term.cramped
      BY <3>2, <3>3
    <3>4. CASE ~term.cramped
      BY <1>0, <2>2, <3>2, <3>4
    <3> QED
      BY <3>3, <3>4
  <2>6. term' = seen_disp_event(u)
    BY <2>3, <2>a, Zenon
  <2> HIDE DEF q, tight
  <2>7. /\ Good(c) /\ SameText(term, c) /\ c.cols = term.cols
        /\ term.cramped \/ tight => c.cramped
    BY <2>4, CrampedGood
  <2> HIDE DEF c
  <2>8. Good(u) /\ SameText(c, u)
    BY <1>z, <2>5, <2>7, ColumnAt
  <2> HIDE DEF u
  <2>9. SameText(term, u)
    BY <2>7, <2>8, IsolatedProps
  <2> QED
    BY <2>6, <2>8, <2>9, SeenStep
<1>4. CASE CBT
  <2>1. PICK x \in {Min2(term.curs.x, 0)} \cup 0 .. term.curs.x - 1 :
           term' = [term EXCEPT !.curs.x = x]
    BY <1>4 DEF CBT, Do, Step
  <2>2. x \in Int /\ x < term.cols /\ (x >= 0 \/ term.cramped)
    BY <1>0, <2>1 DEF Min2, Lengths
  <2> DEFINE u == [term EXCEPT !.curs.x = x]
  <2>3. Good(u) /\ SameText(term, u)
    BY <1>z, <2>2, ColumnAt
  <2>4. SameView(term, u)
    BY <2>3 DEF SameView, Good, TermRec
  <2> HIDE DEF u
  <2> QED
    BY <2>1, <2>3, <2>4, QuietStep DEF u
<1>5. CASE CursorRel
  <2>1. PICK n \in 1 .. 2, d \in {[x |-> 1, y |-> 0], [x |-> -1, y |-> 0],
                                  [x |-> 0, y |-> 1], [x |-> 0, y |-> -1]} :
           term' = seen_disp_event(move(term, term.curs.x + n * d.x,
                                              term.curs.y + n * d.y, 1))
    BY <1>5 DEF CursorRel, Do, Step
  <2> DEFINE a == term.curs.x + n * d.x
             b == term.curs.y + n * d.y
             u == move(term, a, b, 1)
  <2>2. d.x \in Int /\ d.y \in Int /\ n \in Int
    OBVIOUS
  <2>3. a \in Int /\ b \in Int
    <3>1. n = 1 \/ n = 2
      OBVIOUS
    <3> QED
      BY <1>0, <2>2, <3>1
  <2> HIDE DEF a, b
  <2>4. Good(u) /\ SameText(term, u)
    BY <1>z, <2>3, MoveGood
  <2> HIDE DEF u
  <2> QED
    BY <2>1, <2>4, SeenStep DEF u, a, b
<1>6. CASE CUP
  <2>1. PICK x \in {0, MaxCols - 1}, y \in 0 .. MaxRows - 1 :
           term' = seen_disp_event(move(term, x,
                      IF term.dec_om THEN term.marg_t + y ELSE y,
                      IF term.dec_om THEN 2 ELSE 0))
    BY <1>6 DEF CUP, Do, Step
  <2> DEFINE b == IF term.dec_om THEN term.marg_t + y ELSE y
             m == IF term.dec_om THEN 2 ELSE 0
             u == move(term, x, b, m)
  <2>2. x \in Int /\ b \in Int /\ m \in Int
    BY <1>0, ConstAssumption
  <2> HIDE DEF b, m
  <2>3. Good(u) /\ SameText(term, u)
    BY <2>2, MoveGood
  <2> HIDE DEF u
  <2> QED
    BY <2>1, <2>3, SeenStep DEF u, b, m
<1> QED
  BY <1>1, <1>2, <1>3, <1>4, <1>5, <1>6

\* One line up or down: LF, NEL, RI.
LEMMA LineAllowed ==
  ASSUME Good(term), LF \/ NEL \/ RI
  PROVE  Allowed(term, term')
<1>0. /\ term.marg_t \in Int /\ term.marg_b \in Int
      /\ Region(term, term.marg_t, term.marg_b)
      /\ term.curs \in Pos /\ term.rows \in Lengths
      /\ term.curs.y \in 0 .. term.rows - 1 /\ term.cols \in Lengths
  BY DEF Good, TermRec, Margins, Cursors, OnScreen
<1>z. TRUE \in BOOLEAN /\ FALSE \in BOOLEAN /\ -1 \in Int /\ 0 \in 0 .. term.cols - 1
  BY <1>0 DEF Lengths
<1>1. ASSUME NEW t, Good(t), Isolated(term, t)
      PROVE  LET u == [t EXCEPT !.wrapnext = FALSE]
             IN  Good(u) /\ Isolated(term, u)
  <2> DEFINE u == [t EXCEPT !.wrapnext = FALSE]
  <2>1. 0 \in 0 .. t.cols - 1
    BY <1>1 DEF Good, TermRec, Lengths
  <2>2. Good(u) /\ SameText(t, u)
    BY <1>z, <1>1, <2>1, ColumnGood, Zenon
  <2> HIDE DEF u
  <2>3. Isolated(term, u)
    BY <1>1, <2>2, IsolatedProps
  <2> QED
    BY <2>2, <2>3 DEF u
<1>2. CASE LF
  <2> DEFINE i == Index(term)
             u == [i EXCEPT !.wrapnext = FALSE]
  <2>1. term' = seen_disp_event(u)
    BY <1>2 DEF LF, Do, Step
  <2>2. Good(i) /\ Isolated(term, i)
    BY IndexGood
  <2> HIDE DEF i
  <2>3. Good(u) /\ Isolated(term, u)
    BY <1>1, <2>2
  <2> HIDE DEF u
  <2> QED
    BY <2>1, <2>3, SeenStep
<1>3. CASE NEL
  <2> DEFINE u == [Index(term) EXCEPT !.curs.x = 0, !.wrapnext = FALSE]
  <2>1. term' = seen_disp_event(u)
    BY <1>3 DEF NEL, Do, Step
  <2>2. Good(u) /\ Isolated(term, u)
    BY WrapGood
  <2> HIDE DEF u
  <2> QED
    BY <2>1, <2>2, SeenStep
<1>4. CASE RI
  <2> DEFINE y == Max2(term.curs.y - 1, 0)
             s == scroll(term, term.marg_t, term.marg_b, -1, TRUE)
             r == [term EXCEPT !.curs.y = y]
             i == IF term.curs.y = term.marg_t THEN s ELSE r
             u == [i EXCEPT !.wrapnext = FALSE]
  <2>1. term' = seen_disp_event(u)
    BY <1>4 DEF RI, Do, Step, Good, TermRec
  <2>2. y \in 0 .. term.rows - 1
    BY <1>0 DEF Max2, Lengths
  <2> HIDE DEF y
  <2>3. Good(s) /\ Isolated(term, s)
    BY <1>0, <1>z, ScrollGood, Zenon
  <2>4. Good(r) /\ SameText(term, r)
    BY <2>2, RowGood
  <2> HIDE DEF s, r
  <2>5. Good(i) /\ Isolated(term, i)
    BY <2>3, <2>4, IsolatedProps
  <2> HIDE DEF i
  <2>6. Good(u) /\ Isolated(term, u)
    BY <1>1, <2>5
  <2> HIDE DEF u
  <2> QED
    BY <2>1, <2>6, SeenStep
<1> QED
  BY <1>2, <1>3, <1>4

\* Clearing the scrollback leaves both screens alone.
Cleared(t, u) == Good(u) /\ MainScreen(u) = MainScreen(t) /\ Viewable(t, u)

\* ED: erasing parts of the screen, all of it or the scrollback.
LEMMA EraseDisplayAllowed ==
  ASSUME Good(term), ED
  PROVE  Allowed(term, term') \/ (who' = "clear" /\ Cleared(term, term'))
<1> DEFINE c == term.curs
           e(arg, left) ==
             IF arg = 3 THEN term_clrsb(term)
             ELSE IF arg = 2 \/ (arg = 0 /\ c = Origin) THEN EraseAll(term)
             ELSE IF arg = 0 THEN ErasePart(term, c.y, term.rows - 1, left)
             ELSE ErasePart(term, 0, c.y, left)
<1>1. PICK arg \in 0 .. 3, left \in {FALSE, term.screen[c.y + 1]} :
         /\ who' = (IF arg = 3 THEN "clear" ELSE "output")
         /\ term' = seen_disp_event(ResetView(e(arg, left)))
  BY DEF ED, Step
<1>2. term.screen[c.y + 1] \in BOOLEAN
  <2>1. /\ term.screen \in Lines /\ Len(term.screen) = term.rows
        /\ term.rows \in Lengths /\ c.y \in 0 .. term.rows - 1
    BY DEF Good, TermRec, Filled, Cursors, OnScreen
  <2>2. c.y + 1 \in 1 .. Len(term.screen)
    BY <2>1 DEF Lengths
  <2> QED
    BY <2>1, <2>2, ElementOfSeq DEF Lines
<1>3. left \in BOOLEAN
  BY <1>2
<1>4. CASE arg = 3
  <2> DEFINE u == term_clrsb(term)
             v == ResetView(u)
  <2>1. who' = "clear" /\ term' = seen_disp_event(v)
    BY <1>1, <1>4
  <2>2. /\ Good(u) /\ u.screen = term.screen /\ u.alt_screen = term.alt_screen
        /\ u.alt_which = term.alt_which
    BY ClrsbGood
  <2> HIDE DEF u
  <2>3. Good(v) /\ SameText(u, v)
    BY <2>2, ResetViewGood
  <2> HIDE DEF v
  <2>4. /\ Good(term') /\ SameText(v, term') /\ term'.seen_disp_event = TRUE
    BY <2>1, <2>3, SeenGood
  <2>5. MainScreen(term') = MainScreen(term)
    BY <2>2, <2>3, <2>4 DEF MainScreen, SameText
  <2> QED
    BY <2>1, <2>4, <2>5 DEF Cleared, Viewable
<1>5. CASE arg # 3
  <2> DEFINE u == e(arg, left)
  <2>1. Good(EraseAll(term)) /\ Isolated(term, EraseAll(term))
    BY EraseAllGood
  <2>2. /\ Good(ErasePart(term, c.y, term.rows - 1, left))
        /\ Isolated(term, ErasePart(term, c.y, term.rows - 1, left))
        /\ Good(ErasePart(term, 0, c.y, left))
        /\ Isolated(term, ErasePart(term, 0, c.y, left))
    BY <1>3, ErasePartGood
  <2>3. Good(u) /\ Isolated(term, u)
    BY <1>5, <2>1, <2>2, Zenon
  <2>4. term' = seen_disp_event(ResetView(u))
    BY <1>1
  <2> HIDE DEF u
  <2> QED
    BY <2>3, <2>4, ResetStep
<1> QED
  BY <1>4, <1>5

\* Erasing in a line, and moving lines: EL, DEL, IL, DL, SU and SD.
LEMMA LinesAllowed ==
  ASSUME Good(term), EraseInLine \/ DEL \/ IL \/ DL \/ ScrollRegion
  PROVE  Allowed(term, term')
<1>0. /\ term.marg_t \in Int /\ term.marg_b \in Int
      /\ Region(term, term.marg_t, term.marg_b)
      /\ term.curs \in Pos /\ term.rows \in Lengths
      /\ term.curs.y \in 0 .. term.rows - 1 /\ term.cols \in Lengths
      /\ term.screen \in Lines /\ Len(term.screen) = term.rows
  BY DEF Good, TermRec, Margins, Cursors, OnScreen, Filled
<1>z. TRUE \in BOOLEAN /\ FALSE \in BOOLEAN /\ term.curs.y \in Int
  BY <1>0
<1>r. term.curs.y <= term.marg_b => Region(term, term.curs.y, term.marg_b)
  BY <1>0 DEF Region, Lengths
<1>s. Isolated(term, term)
  BY DEF Isolated
<1>e. term.screen[term.curs.y + 1] \in BOOLEAN
  <2>1. term.curs.y + 1 \in 1 .. Len(term.screen)
    BY <1>0 DEF Lengths
  <2> QED
    BY <1>0, <2>1, ElementOfSeq DEF Lines
<1>1. CASE EraseInLine
  <2>1. PICK left \in {FALSE, term.screen[term.curs.y + 1]}, n \in 0 .. 1 :
           term' = seen_disp_event(
                      ErasePart(term, term.curs.y + 1, term.curs.y + n, left))
    BY <1>1 DEF EraseInLine, Do, Step
  <2> DEFINE a == term.curs.y + 1
             z == term.curs.y + n
             u == ErasePart(term, a, z, left)
  <2>2. left \in BOOLEAN
    BY <1>e, <2>1
  <2>3. a \in Int /\ z \in Int
    BY <1>z, <2>1
  <2> HIDE DEF a, z
  <2>4. Good(u) /\ Isolated(term, u)
    BY <2>2, <2>3, ErasePartGood
  <2> HIDE DEF u
  <2> QED
    BY <2>1, <2>4, SeenStep DEF u, a, z
<1>d. CASE DEL
  <2>1. PICK left \in {FALSE, term.screen[term.curs.y + 1]} :
           LET back == term.curs.x # 0 /\ ~term.wrapnext
           IN  term' = [ErasePart(term, 1, 0, left) EXCEPT
                          !.curs.x = IF back THEN @ - 1 ELSE @, !.wrapnext = FALSE]
    BY <1>d DEF DEL, Do, Step
  <2> DEFINE e == ErasePart(term, 1, 0, left)
             back == term.curs.x # 0 /\ ~term.wrapnext
             x == IF back THEN term.curs.x - 1 ELSE term.curs.x
             u == [e EXCEPT !.curs.x = x, !.wrapnext = FALSE]
  <2>2. left \in BOOLEAN
    BY <1>e, <2>1
  <2>3. Good(e) /\ Isolated(term, e)
    BY <2>2, ErasePartGood
  <2>4. /\ e.curs = term.curs /\ e.cols = term.cols /\ e.cramped = term.cramped
        /\ e.disptop = term.disptop /\ e.seen_disp_event = term.seen_disp_event
        /\ e.alt_which = term.alt_which /\ e.alt_sblines = term.alt_sblines
        /\ e.erase_to_scrollback = term.erase_to_scrollback
        /\ e.scrollback = term.scrollback
    BY DEF ErasePart, Good, TermRec
  <2> HIDE DEF e
  <2>5. term' = u
    BY <2>1, <2>4 DEF e
  <2>6. x \in Int /\ x < e.cols /\ (x >= 0 \/ e.cramped)
    <3>1. /\ term.curs.x \in Int /\ term.cols \in Int /\ term.curs.x < term.cols
          /\ term.curs.x >= 0 \/ term.cramped
      BY <1>0 DEF Good, Cursors, OnScreen, Pos, Lengths
    <3> QED
      BY <2>4, <3>1
  <2> HIDE DEF x
  <2>7. Good(u) /\ SameText(e, u)
    BY <1>z, <2>3, <2>6, ColumnAt
  <2>8. sblines(u) = sblines(term) /\ u.disptop = term.disptop
        /\ u.seen_disp_event = term.seen_disp_event
    BY <2>3, <2>4 DEF sblines, Good, TermRec
  <2> HIDE DEF u
  <2>9. Isolated(term, u) /\ Viewable(term, u)
    BY <2>3, <2>7, <2>8, IsolatedProps DEF Viewable
  <2> QED
    BY <2>5, <2>7, <2>9 DEF Allowed
<1>2. CASE IL
  <2>1. PICK n \in 1 .. 2 : term' = seen_disp_event(
           IF term.curs.y <= term.marg_b
           THEN scroll(term, term.curs.y, term.marg_b, -n, FALSE) ELSE term)
    BY <1>2 DEF IL, Do, Step
  <2> DEFINE m == -n
             s == scroll(term, term.curs.y, term.marg_b, m, FALSE)
             u == IF term.curs.y <= term.marg_b THEN s ELSE term
  <2>2. m \in Int
    OBVIOUS
  <2>3. term' = seen_disp_event(u)
    BY <2>1
  <2> HIDE DEF m
  <2>4. term.curs.y <= term.marg_b => Good(s) /\ Isolated(term, s)
    BY <1>0, <1>z, <1>r, <2>2, ScrollGood, Zenon
  <2> HIDE DEF s
  <2>5. Good(u) /\ Isolated(term, u)
    BY <1>s, <2>4
  <2> HIDE DEF u
  <2> QED
    BY <2>3, <2>5, SeenStep
<1>3. CASE DL
  <2>1. PICK n \in 1 .. 2 : term' = seen_disp_event(
           IF term.curs.y <= term.marg_b
           THEN scroll(term, term.curs.y, term.marg_b, n, TRUE) ELSE term)
    BY <1>3 DEF DL, Do, Step
  <2> DEFINE s == scroll(term, term.curs.y, term.marg_b, n, TRUE)
             u == IF term.curs.y <= term.marg_b THEN s ELSE term
  <2>2. n \in Int
    OBVIOUS
  <2>3. term' = seen_disp_event(u)
    BY <2>1
  <2>4. term.curs.y <= term.marg_b => Good(s) /\ Isolated(term, s)
    BY <1>0, <1>z, <1>r, <2>2, ScrollGood, Zenon
  <2> HIDE DEF s
  <2>5. Good(u) /\ Isolated(term, u)
    BY <1>s, <2>4
  <2> HIDE DEF u
  <2> QED
    BY <2>3, <2>5, SeenStep
<1>4. CASE ScrollRegion
  <2>1. PICK n \in {-2, -1, 1, 2} : term' = seen_disp_event(
           [scroll(term, term.marg_t, term.marg_b, n, TRUE) EXCEPT !.wrapnext = FALSE])
    BY <1>4 DEF ScrollRegion, Do, Step
  <2> DEFINE s == scroll(term, term.marg_t, term.marg_b, n, TRUE)
             u == [s EXCEPT !.wrapnext = FALSE]
  <2>2. n \in Int
    OBVIOUS
  <2>3. Good(s) /\ Isolated(term, s)
    BY <1>0, <1>z, <2>2, ScrollGood, Zenon
  <2>4. term' = seen_disp_event(u)
    BY <2>1
  <2> HIDE DEF s
  <2>5. 0 \in 0 .. s.cols - 1
    BY <2>3 DEF Good, TermRec, Lengths
  <2>6. Good(u) /\ SameText(s, u)
    BY <1>z, <2>3, <2>5, ColumnGood, Zenon
  <2> HIDE DEF u
  <2>7. Isolated(term, u)
    BY <2>3, <2>6, IsolatedProps
  <2> QED
    BY <2>4, <2>6, <2>7, SeenStep
<1> QED
  BY <1>1, <1>2, <1>3, <1>4, <1>d

\* Scroll margins, the saved cursor and the modes: DECSTBM, DECSC, DECRC,
\* DECOM, DECAWM, DECALN.
LEMMA SettingsAllowed ==
  ASSUME Good(term), DECSTBM \/ DECSC \/ DECRC \/ DECOM \/ DECAWM \/ DECALN
  PROVE  Allowed(term, term')
<1>z. TRUE \in BOOLEAN /\ FALSE \in BOOLEAN
  OBVIOUS
<1>0. /\ term \in TermRec /\ term.rows \in Lengths /\ term.cols \in Lengths
  BY DEF Good, TermRec
<1>1. CASE DECSTBM
  <2>1. PICK top \in 0 .. MaxRows - 1, bot \in 0 .. MaxRows - 1 :
          LET b == Min2(bot, term.rows - 1)
          IN  \/ /\ b - top > 0
                 /\ term' = seen_disp_event([term EXCEPT !.marg_t = top, !.marg_b = b,
                     !.curs = [x |-> 0, y |-> IF term.dec_om THEN top ELSE 0]])
              \/ term' = term
    BY <1>1 DEF DECSTBM, Do, Step
  <2> DEFINE b == Min2(bot, term.rows - 1)
             p == [x |-> 0, y |-> IF term.dec_om THEN top ELSE 0]
             u == [term EXCEPT !.marg_t = top, !.marg_b = b, !.curs = p]
  <2>2. CASE term' = term
    BY <2>2, QuietStep DEF SameView, SameText
  <2>3. CASE b - top > 0 /\ term' = seen_disp_event(u)
    <3>1. top \in Int /\ b \in Int /\ Region(term, top, b)
      BY <1>0, <2>3, ConstAssumption DEF Min2, Region, Lengths
    <3>2. p \in Pos /\ p.x < term.cols /\ p.x >= 0 /\ p.y \in 0 .. term.rows - 1
      <4>1. top \in 0 .. term.rows - 1 /\ 0 \in 0 .. term.rows - 1
        BY <1>0, <3>1 DEF Region, Lengths
      <4> QED
        BY <1>0, <3>1, <4>1 DEF Pos, Lengths
    <3> HIDE DEF b, p
    <3>3. u \in TermRec
      BY <1>0, <3>1, <3>2 DEF TermRec
    <3>4. Filled(u) /\ Cursors(u) /\ Margins(u) /\ Bounded(u)
      BY <1>0, <3>1, <3>2
      DEF Good, TermRec, Filled, Cursors, Margins, Bounded, OnScreen, Region
    <3>5. SameText(term, u)
      BY <1>0 DEF TermRec, SameText
    <3>6. Good(u)
      BY <3>3, <3>4 DEF Good
    <3> HIDE DEF u
    <3> QED
      BY <2>3, <3>5, <3>6, SeenStep
  <2> QED
    BY <2>1, <2>2, <2>3
<1>2. CASE DECSC
  <2> DEFINE u == save_cursor(term, TRUE)
  <2>1. term' = u
    BY <1>2 DEF DECSC, Do, Step
  <2>2. Good(u) /\ SameText(term, u)
    BY <1>z, SaveCursorGood, Zenon
  <2>3. SameView(term, u)
    BY <1>0, <2>2 DEF SameView, save_cursor, TermRec
  <2> HIDE DEF u
  <2> QED
    BY <2>1, <2>2, <2>3, QuietStep
<1>3. CASE DECRC
  <2> DEFINE u == save_cursor(term, FALSE)
  <2>1. term' = seen_disp_event(u)
    BY <1>3 DEF DECRC, Do, Step
  <2>2. Good(u) /\ SameText(term, u)
    BY <1>z, SaveCursorGood, Zenon
  <2> HIDE DEF u
  <2> QED
    BY <2>1, <2>2, SeenStep
<1>4. CASE DECOM \/ DECAWM
  <2>1. PICK b \in BOOLEAN : \/ term' = [term EXCEPT !.dec_om = b]
                             \/ term' = [term EXCEPT !.wrap = b]
    BY <1>4 DEF DECOM, DECAWM, Do, Step
  <2>2. term' \in TermRec
    BY <1>0, <2>1 DEF TermRec
  <2>3. Filled(term') /\ Cursors(term') /\ Margins(term') /\ Bounded(term')
    BY ZenonT(60), <1>0, <2>1
    DEF Good, TermRec, Filled, Cursors, Margins, Bounded, OnScreen, Region
  <2>4. SameView(term, term')
    BY <1>0, <2>1 DEF SameView, SameText, TermRec
  <2> QED
    BY <2>2, <2>3, <2>4, QuietStep DEF Good
<1>5. CASE DECALN
  <2> DEFINE s == [i \in 1 .. term.rows |-> TRUE]
             u == SetScreen(term, s)
  <2>1. term' = seen_disp_event(ResetView(u))
    BY <1>5 DEF DECALN, Do, Step, SetScreen
  <2>2. s \in [1 .. term.rows -> BOOLEAN] /\ term.rows \in Nat
    BY <1>0 DEF Lengths
  <2> HIDE DEF s
  <2>3. Good(u) /\ Isolated(term, u)
    BY <2>2, FunctionIsLines, ScreenGood
  <2> HIDE DEF u
  <2> QED
    BY <2>1, <2>3, ResetStep
<1> QED
  BY <1>1, <1>2, <1>3, <1>4, <1>5

\* DECCOLM: the margins, the cursor and the screen afresh, under the same view.
LEMMA ColumnsAllowed ==
  ASSUME Good(term), DECCOLM
  PROVE  Allowed(term, term')
<1> DEFINE o == 0
           m == term.rows - 1
           t == [term EXCEPT !.marg_t = o, !.alt_t = o, !.marg_b = m, !.alt_b = m]
           v == move(t, 0, 0, 0)
           u == EraseAll(v)
<1>0. term \in TermRec /\ term.rows \in Lengths
  BY DEF Good, TermRec
<1>1. term' = u
  BY DEF DECCOLM, Do, Step
<1>2. o \in Int /\ m \in Int /\ Region(term, o, m) /\ 0 \in Int
  BY <1>0 DEF Lengths, Region
<1> HIDE DEF o, m
<1>3. t \in TermRec
  BY <1>0, <1>2 DEF TermRec
<1>4. Filled(t) /\ Cursors(t) /\ Margins(t) /\ Bounded(t) /\ SameView(term, t)
  BY <1>0, <1>2
  DEF Good, TermRec, Filled, Cursors, Margins, Bounded, OnScreen, Region,
      SameView, SameText
<1>5. Good(t)
  BY <1>3, <1>4 DEF Good
<1> HIDE DEF t
<1>6. Good(v) /\ SameText(t, v)
  BY <1>2, <1>5, MoveGood
<1>7. SameView(t, v)
  BY <1>5, <1>6 DEF SameView, move, Good, TermRec
<1> HIDE DEF v
<1>8. Good(u) /\ Isolated(v, u) /\ KeepsView(v, u)
  BY <1>6, EraseAllGood, EraseAllView
<1> HIDE DEF u
<1>9. Isolated(term, u)
  BY <1>4, <1>7, <1>8, IsolatedProps DEF SameView
<1>10. KeepsView(term, u)
  BY <1>4, <1>7, <1>8 DEF SameView, SameText, KeepsView, sblines
<1> QED
  BY <1>1, <1>8, <1>9, <1>10 DEF Allowed, KeepsView, Viewable

\* The alternate screen, in and out: toggle_mode() 47, 1047, 1048 and 1049.
LEMMA ModeAllowed ==
  ASSUME Good(term), Mode47 \/ Mode1047 \/ Mode1048 \/ Mode1049
  PROVE  Allowed(term, term')
<1>z. TRUE \in BOOLEAN /\ FALSE \in BOOLEAN
  OBVIOUS
<1>0. term \in TermRec
  BY DEF Good
<1>n. term.no_alt_screen \in BOOLEAN
  BY <1>0 DEF TermRec
<1>1. CASE Mode47 \/ Mode1047
  <2>1. PICK b \in BOOLEAN, a \in BOOLEAN :
          term' = ResetView(swap_screen(term, b /\ ~term.no_alt_screen, a, a))
    BY <1>1, <1>z DEF Mode47, Mode1047, Do, Step
  <2> DEFINE w == b /\ ~term.no_alt_screen
             u == swap_screen(term, w, a, a)
  <2>2. w \in BOOLEAN
    OBVIOUS
  <2> HIDE DEF w
  <2>3. Good(u) /\ Isolated(term, u)
    BY <2>2, SwapGood
  <2> HIDE DEF u
  <2> QED
    BY <2>1, <2>3, ResetStep DEF u, w
<1>2. CASE Mode1048
  <2>1. PICK b \in BOOLEAN :
          LET t == IF term.no_alt_screen THEN term ELSE save_cursor(term, b)
          IN  term' = (IF b THEN t ELSE seen_disp_event(t))
    BY <1>2 DEF Mode1048, Do, Step
  <2> DEFINE s == save_cursor(term, b)
             t == IF term.no_alt_screen THEN term ELSE s
  <2>2. Good(s) /\ SameText(term, s)
    BY SaveCursorGood
  <2>3. b => SameView(term, s)
    BY <1>0, <2>2 DEF SameView, save_cursor, TermRec
  <2> HIDE DEF s
  <2>4. Good(t) /\ SameText(term, t) /\ (b => SameView(term, t))
    BY <2>2, <2>3 DEF SameView, SameText
  <2>5. term' = IF b THEN t ELSE seen_disp_event(t)
    BY <2>1 DEF s
  <2> HIDE DEF t
  <2> QED
    BY <2>4, <2>5, SeenStep, QuietStep
<1>3. CASE Mode1049
  <2> DEFINE on == ~term.no_alt_screen
             t0(b) == IF b /\ on THEN save_cursor(term, TRUE) ELSE term
             t1(b) == IF b THEN t0(b) ELSE seen_disp_event(t0(b))
             t2(b) == swap_screen(t1(b), b /\ on, TRUE, FALSE)
             t3(b) == IF ~b /\ on THEN save_cursor(t2(b), FALSE) ELSE t2(b)
  <2>1. PICK b \in BOOLEAN : term' = ResetView(t3(b))
    BY <1>3 DEF Mode1049, Do, Step
  <2> DEFINE u0 == t0(b)
             u1 == IF b THEN u0 ELSE seen_disp_event(u0)
             w == b /\ on
             u2 == swap_screen(u1, w, TRUE, FALSE)
             u3 == IF ~b /\ on THEN save_cursor(u2, FALSE) ELSE u2
  <2>2. term' = ResetView(u3)
    BY <2>1
  <2>3. Good(save_cursor(term, TRUE)) /\ SameText(term, save_cursor(term, TRUE))
    BY <1>z, SaveCursorGood, Zenon
  <2>4. Good(u0) /\ SameText(term, u0)
    BY <2>3 DEF SameText
  <2>5. w \in BOOLEAN
    OBVIOUS
  <2> HIDE DEF t0, w, u0
  <2>6. Good(u1) /\ SameText(term, u1)
    <3>1. Good(seen_disp_event(u0)) /\ SameText(u0, seen_disp_event(u0))
      BY <2>4, SeenGood
    <3>2. SameText(term, seen_disp_event(u0))
      BY <2>4, <3>1, IsolatedProps
    <3> QED
      BY <2>4, <3>1, <3>2
  <2> HIDE DEF u1
  <2>7. Good(u2) /\ Isolated(u1, u2)
    BY <1>z, <2>5, <2>6, SwapGood, Zenon
  <2> HIDE DEF u2
  <2>8. Isolated(term, u2)
    BY <2>6, <2>7, IsolatedProps
  <2>9. Good(save_cursor(u2, FALSE)) /\ SameText(u2, save_cursor(u2, FALSE))
    BY <1>z, <2>7, SaveCursorGood, Zenon
  <2>10. Isolated(term, save_cursor(u2, FALSE))
    BY <2>8, <2>9, IsolatedProps
  <2>11. Good(u3) /\ Isolated(term, u3)
    BY <2>7, <2>8, <2>9, <2>10
  <2> HIDE DEF u3
  <2> QED
    BY <2>2, <2>11, ResetStep
<1> QED
  BY <1>1, <1>2, <1>3

\* The user's view: the scroll bar, keys and repainting.
LEMMA ViewAllowed ==
  ASSUME Good(term), TermScroll \/ TermKey \/ TermUpdate
  PROVE  Allowed(term, term')
<1>0. 0 \in Int /\ sblines(term) \in Nat
  BY SblinesNat
<1>q. Allowed(term, term)
  BY QuietStep DEF SameView, SameText
<1>1. CASE TermScroll
  <2>1. PICK d \in -(sblines(term) + 1) .. 0 :
           term' = [term EXCEPT !.disptop = Clamp(d, -sblines(term), 0)]
    BY <1>1 DEF TermScroll, Step
  <2> DEFINE e == Clamp(d, -sblines(term), 0)
  <2>2. e \in Int /\ e >= -sblines(term)
    BY <1>0 DEF Clamp, Max2, Min2
  <2>3. term' = [term EXCEPT !.disptop = e]
    BY <2>1
  <2> HIDE DEF e
  <2>4. Good(term') /\ SameText(term, term') /\ term'.disptop = e
    BY <2>2, <2>3, TopGood
  <2>5. sblines(term') = sblines(term)
    BY <2>3 DEF sblines, Good, TermRec
  <2>6. Viewable(term, term')
    BY <2>2, <2>4, <2>5 DEF Viewable
  <2> QED
    BY <2>4, <2>6, IsolatedProps DEF Allowed
<1>2. CASE TermKey
  <2> DEFINE u == [term EXCEPT !.disptop = 0]
  <2>1. term' = IF ScrollOnKey THEN seen_disp_event(u) ELSE term
    BY <1>2 DEF TermKey, Step
  <2>2. Good(u) /\ SameText(term, u)
    BY <1>0, TopGood
  <2> HIDE DEF u
  <2>3. Allowed(term, seen_disp_event(u))
    BY <2>2, SeenStep
  <2> QED
    BY <1>q, <2>1, <2>3
<1>3. CASE TermUpdate
  <2> DEFINE u == SetView(term, 0, FALSE)
  <2>1. term' = IF ScrollOnDisp THEN u ELSE term
    BY <1>3 DEF TermUpdate, Step, SetView
  <2>z. FALSE \in BOOLEAN
    OBVIOUS
  <2>2. Good(u) /\ SameText(term, u) /\ u.disptop = 0
    BY <1>0, <2>z, ViewGood, Zenon
  <2> HIDE DEF u
  <2>3. sblines(u) \in Nat /\ Isolated(term, u)
    BY <2>2, SblinesNat, IsolatedProps
  <2>4. Viewable(term, u)
    BY <2>2, <2>3 DEF Viewable
  <2> QED
    BY <1>q, <2>1, <2>2, <2>3, <2>4 DEF Allowed
<1> QED
  BY <1>1, <1>2, <1>3

\* A changed default, in force on both screens.
LEMMA AdoptGood ==
  ASSUME NEW t, Good(t), NEW b \in BOOLEAN
  PROVE  /\ Good(AdoptWrap(t, b)) /\ SameText(t, AdoptWrap(t, b))
         /\ Good(AdoptOrigin(t, b)) /\ SameText(t, AdoptOrigin(t, b))
<1> DEFINE u == [t EXCEPT !.conf_wrap_mode = b, !.wrap = b, !.alt_wrap = b]
           v == [t EXCEPT !.conf_dec_om = b, !.dec_om = b, !.alt_om = b]
<1>0. t \in TermRec
  BY DEF Good
<1>1. u \in TermRec /\ v \in TermRec
  <2> DEFINE a == [t EXCEPT !.conf_wrap_mode = b]
             d == [a EXCEPT !.wrap = b]
             c == [t EXCEPT !.conf_dec_om = b]
             e == [c EXCEPT !.dec_om = b]
  <2>1. a \in TermRec
    BY <1>0 DEF TermRec
  <2>2. c \in TermRec
    BY <1>0 DEF TermRec
  <2>3. u = [d EXCEPT !.alt_wrap = b] /\ v = [e EXCEPT !.alt_om = b]
    BY Zenon
  <2> HIDE DEF a, c, u, v
  <2>4. d \in TermRec
    BY <2>1 DEF TermRec
  <2>5. e \in TermRec
    BY <2>2 DEF TermRec
  <2> HIDE DEF d, e
  <2>6. u \in TermRec
    BY <2>3, <2>4 DEF TermRec
  <2>7. v \in TermRec
    BY <2>3, <2>5 DEF TermRec
  <2> QED
    BY <2>6, <2>7
<1>2. Filled(u) /\ Cursors(u) /\ Margins(u) /\ Bounded(u) /\ SameText(t, u)
  BY DEF Good, TermRec, Filled, Cursors, Margins, Bounded, OnScreen, Region, SameText
<1>3. Filled(v) /\ Cursors(v) /\ Margins(v) /\ Bounded(v) /\ SameText(t, v)
  BY DEF Good, TermRec, Filled, Cursors, Margins, Bounded, OnScreen, Region, SameText
<1>4. SameText(t, t)
  BY DEF SameText
<1>5. AdoptWrap(t, b) \in {t, u} /\ AdoptOrigin(t, b) \in {t, v}
  BY DEF AdoptWrap, AdoptOrigin
<1> HIDE DEF u, v
<1> QED
  BY <1>1, <1>2, <1>3, <1>4, <1>5 DEF Good

\* A change of settings, which may leave the alternate screen.
LEMMA ReconfigAllowed ==
  ASSUME Good(term), TermReconfig
  PROVE  Good(term') /\ Isolated(term, term') /\ who' = "reconfig"
<1>1. PICK e \in BOOLEAN, n \in BOOLEAN, w \in BOOLEAN, o \in BOOLEAN :
        LET t0 == AdoptOrigin(AdoptWrap(term, w), o)
            t == IF n THEN swap_screen(t0, FALSE, FALSE, FALSE) ELSE t0
        IN  /\ term' = [t EXCEPT !.erase_to_scrollback = e, !.no_alt_screen = n]
            /\ who' = "reconfig"
  BY DEF TermReconfig, Step
<1> DEFINE a == AdoptWrap(term, w)
           t0 == AdoptOrigin(a, o)
           s == swap_screen(t0, FALSE, FALSE, FALSE)
           t == IF n THEN s ELSE t0
           u == [t EXCEPT !.erase_to_scrollback = e, !.no_alt_screen = n]
<1>2. FALSE \in BOOLEAN
  OBVIOUS
<1>4. term' = u /\ who' = "reconfig"
  BY <1>1
<1>a. Good(a) /\ SameText(term, a)
  BY AdoptGood
<1> HIDE DEF a
<1>b. Good(t0) /\ SameText(a, t0)
  BY <1>a, AdoptGood
<1> HIDE DEF t0
<1>c. SameText(term, t0)
  BY <1>a, <1>b, IsolatedProps
<1>3. Good(s) /\ Isolated(t0, s)
  BY <1>2, <1>b, SwapGood, Zenon
<1> HIDE DEF s
<1>5. Good(t) /\ Isolated(term, t)
  BY <1>3, <1>b, <1>c, IsolatedProps
<1> HIDE DEF t
<1>6. u \in TermRec
  BY <1>5 DEF Good, TermRec
<1>7. Filled(u) /\ Cursors(u) /\ Margins(u) /\ Bounded(u) /\ SameText(t, u)
  BY <1>5
  DEF Good, TermRec, Filled, Cursors, Margins, Bounded, OnScreen, Region, SameText
<1> HIDE DEF u
<1> QED
  BY <1>4, <1>5, <1>6, <1>7, IsolatedProps DEF Good

\* Reset and resize: the terminal stays good and its view exists.
LEMMA ResetResize ==
  ASSUME Good(term), RIS \/ TermPwron \/ TermSize
  PROVE  Good(term') /\ Viewable(term, term') /\ who' \in {"reset", "resize"}
<1>z. TRUE \in BOOLEAN /\ 0 \in Int
  OBVIOUS
<1>1. CASE RIS
  <2> DEFINE p == power_on(term, TRUE)
             v == ResetView(p)
  <2>1. term' = seen_disp_event(v) /\ who' = "reset"
    BY <1>1 DEF RIS, Step
  <2>2. Good(p)
    BY <1>z, PowerOnGood, Zenon
  <2> HIDE DEF p
  <2>3. Good(v)
    BY <2>2, ResetViewGood
  <2> HIDE DEF v
  <2> QED
    BY <2>1, <2>3, SeenGood DEF Viewable
<1>2. CASE TermPwron
  <2>1. PICK clear \in BOOLEAN : /\ term' = [power_on(term, clear) EXCEPT !.disptop = 0]
                                 /\ who' = "reset"
    BY <1>2 DEF TermPwron, Step
  <2> DEFINE p == power_on(term, clear)
  <2>2. Good(p)
    BY PowerOnGood
  <2>3. term' = [p EXCEPT !.disptop = 0]
    BY <2>1
  <2> HIDE DEF p
  <2>4. Good(term') /\ term'.disptop = 0
    BY <1>z, <2>2, <2>3, TopGood
  <2>5. sblines(term') \in Nat
    BY <2>4, SblinesNat
  <2> QED
    BY <2>1, <2>4, <2>5 DEF Viewable
<1>3. CASE TermSize
  <2>1. PICK r \in 0 .. MaxRows, c \in {0, MaxCols}, sl \in SaveSizes :
           term' = term_size(term, r, c, sl) /\ who' = "resize"
    BY <1>3 DEF TermSize, Step
  <2>2. r \in Nat /\ c \in Nat /\ sl \in Nat
    BY ConstAssumption
  <2> DEFINE u == term_size(term, r, c, sl)
  <2>3. Good(u) /\ (u = term \/ u.disptop = 0)
    BY <2>2, SizeGood
  <2>4. term' = u /\ who' = "resize"
    BY <2>1
  <2> HIDE DEF u
  <2>5. sblines(term') \in Nat
    BY <2>3, <2>4, SblinesNat
  <2> QED
    BY <2>3, <2>4, <2>5 DEF Viewable
<1> QED
  BY <1>1, <1>2, <1>3

-----------------------------------------------------------------------------
(* The theorems.                                                           *)

\* What every step does, by its cause.
StepFact ==
    /\ Good(term')
    /\ \/ who' \in {"reset", "resize"}
       \/ who' = "clear" /\ MainScreen(term') = MainScreen(term)
       \/ Isolated(term, term')
    /\ who' = "reconfig" \/ Viewable(term, term')

\* The record of Init.
Start(e, sl, n, text, y, tmp) ==
    [rows |-> MaxRows, cols |-> MaxCols, savelines |-> sl,
     screen |-> text, alt_screen |-> Blanks(MaxRows),
     scrollback |-> [i \in 1 .. n |-> TRUE], tempsblines |-> tmp,
     alt_sblines |-> 0, alt_which |-> FALSE, disptop |-> 0,
     curs |-> [x |-> 0, y |-> y], alt_curs |-> Origin,
     savecurs |-> Origin, alt_savecurs |-> Origin,
     marg_t |-> 0, marg_b |-> MaxRows - 1, alt_t |-> 0, alt_b |-> MaxRows - 1,
     dec_om |-> FALSE, alt_om |-> FALSE, wrap |-> TRUE, alt_wrap |-> TRUE,
     conf_dec_om |-> FALSE, conf_wrap_mode |-> TRUE, cramped |-> FALSE,
     wrapnext |-> FALSE, alt_wnext |-> FALSE,
     save_wnext |-> FALSE, alt_save_wnext |-> FALSE,
     erase_to_scrollback |-> e, no_alt_screen |-> FALSE,
     seen_disp_event |-> FALSE]

\* The session the specification starts from is good.
LEMMA InitGood ==
  ASSUME Init
  PROVE  Good(term)
<1>1. \E e \in BOOLEAN, sl \in SaveSizes : \E n \in 0 .. sl :
      \E text \in [1 .. MaxRows -> BOOLEAN], y \in 0 .. MaxRows - 1, tmp \in {0, n} :
         term = Start(e, sl, n, text, y, tmp)
  BY Zenon DEF Init, Start
<1>2. PICK e \in BOOLEAN, sl \in SaveSizes :
      \E n \in 0 .. sl :
      \E text \in [1 .. MaxRows -> BOOLEAN], y \in 0 .. MaxRows - 1, tmp \in {0, n} :
         term = Start(e, sl, n, text, y, tmp)
  BY <1>1
<1>3. PICK n \in 0 .. sl :
      \E text \in [1 .. MaxRows -> BOOLEAN], y \in 0 .. MaxRows - 1, tmp \in {0, n} :
         term = Start(e, sl, n, text, y, tmp)
  BY <1>2
<1>4. PICK text \in [1 .. MaxRows -> BOOLEAN], y \in 0 .. MaxRows - 1, tmp \in {0, n} :
         term = Start(e, sl, n, text, y, tmp)
  BY <1>3
<1> DEFINE sb == [i \in 1 .. n |-> TRUE]
           b == Blanks(MaxRows)
           m == MaxRows - 1
           c == [x |-> 0, y |-> y]
           z == Origin
<1>5. /\ MaxRows \in Lengths /\ MaxCols \in Lengths /\ MaxRows \in Nat /\ sl \in Nat
      /\ n \in Nat /\ n <= sl /\ m \in Int
  BY ConstAssumption DEF Lengths
<1>6. tmp \in Nat /\ tmp <= n
  BY <1>5
<1>7. text \in Lines /\ Len(text) = MaxRows
  BY <1>5, FunctionIsLines
<1>8. b \in Lines /\ Len(b) = MaxRows
  BY <1>5, BlanksProps
<1>9. sb \in Lines /\ Len(sb) = n
  <2>1. sb \in [1 .. n -> BOOLEAN]
    OBVIOUS
  <2> HIDE DEF sb
  <2> QED
    BY <1>5, <2>1, FunctionIsLines
<1>10. /\ c \in Pos /\ c.x < MaxCols /\ c.x >= 0 /\ c.y \in 0 .. MaxRows - 1
      /\ z \in Pos /\ z.x < MaxCols /\ z.x >= 0 /\ z.y \in 0 .. MaxRows - 1
  BY <1>5 DEF Pos, Origin, Lengths
<1>11. 0 <= m /\ m < MaxRows /\ 0 <= 0
  BY <1>5 DEF Lengths
<1> HIDE DEF sb, b, m, c, z
<1>12. term = [rows |-> MaxRows, cols |-> MaxCols, savelines |-> sl,
         screen |-> text, alt_screen |-> b,
         scrollback |-> sb, tempsblines |-> tmp,
         alt_sblines |-> 0, alt_which |-> FALSE, disptop |-> 0,
         curs |-> c, alt_curs |-> z,
         savecurs |-> z, alt_savecurs |-> z,
         marg_t |-> 0, marg_b |-> m, alt_t |-> 0, alt_b |-> m,
         dec_om |-> FALSE, alt_om |-> FALSE, wrap |-> TRUE, alt_wrap |-> TRUE,
         conf_dec_om |-> FALSE, conf_wrap_mode |-> TRUE, cramped |-> FALSE,
         wrapnext |-> FALSE, alt_wnext |-> FALSE,
         save_wnext |-> FALSE, alt_save_wnext |-> FALSE,
         erase_to_scrollback |-> e, no_alt_screen |-> FALSE,
         seen_disp_event |-> FALSE]
  BY <1>4 DEF Start, sb, b, m, c, z
<1>13. term \in TermRec
  BY <1>5, <1>6, <1>7, <1>8, <1>9, <1>10, <1>12 DEF TermRec
<1>14. /\ term.rows = MaxRows /\ term.cols = MaxCols /\ term.savelines = sl
       /\ term.screen = text /\ term.alt_screen = b /\ term.scrollback = sb
       /\ term.tempsblines = tmp /\ term.curs = c /\ term.alt_curs = z
       /\ term.savecurs = z /\ term.alt_savecurs = z
       /\ term.marg_t = 0 /\ term.marg_b = m /\ term.alt_t = 0 /\ term.alt_b = m
  BY <1>12
<1> QED
  BY <1>5, <1>6, <1>7, <1>8, <1>9, <1>10, <1>11, <1>13, <1>14
  DEF Good, Filled, Cursors, Margins, Bounded, OnScreen, Region

\* Every operation takes a good terminal to a good one.
LEMMA NextStep ==
  ASSUME Good(term), Next
  PROVE  StepFact
<1>1. CASE \/ DisplayChar \/ CR \/ BS \/ HT \/ CBT \/ CursorRel \/ CUP
           \/ LF \/ NEL \/ RI \/ EraseInLine \/ DEL \/ IL \/ DL \/ ScrollRegion
           \/ DECSTBM \/ DECSC \/ DECRC \/ DECOM \/ DECAWM \/ DECALN
           \/ DECCOLM \/ Mode47 \/ Mode1047 \/ Mode1048 \/ Mode1049
           \/ TermScroll \/ TermKey \/ TermUpdate
  <2>1. Allowed(term, term')
    BY <1>1, DisplayCharAllowed, MotionAllowed, LineAllowed, LinesAllowed,
       SettingsAllowed, ColumnsAllowed, ModeAllowed, ViewAllowed
  <2> QED
    BY <2>1 DEF StepFact, Allowed
<1>2. CASE ED
  BY <1>2, EraseDisplayAllowed DEF StepFact, Allowed, Cleared
<1>3. CASE RIS \/ TermPwron \/ TermSize
  BY <1>3, ResetResize DEF StepFact
<1>4. CASE TermReconfig
  BY <1>4, ReconfigAllowed DEF StepFact
<1> QED
  BY <1>1, <1>2, <1>3, <1>4 DEF Next, Output, User

\* Good(term) is an inductive invariant: sequences, resizes, swaps, resets and
\* changes of settings in any order keep both screens full, all four cursors
\* and both pairs of margins where InsideWindow says, and the scrollback in
\* bounds.
THEOREM GoodInvariant == Spec => []Good(term)
<1>1. Init => Good(term)
  BY InitGood
<1>2. Good(term) /\ [Next]_vars => Good(term)'
  <2>1. ASSUME Good(term), Next PROVE Good(term)'
    BY <2>1, NextStep DEF StepFact
  <2>2. ASSUME Good(term), UNCHANGED vars PROVE Good(term)'
    <3>1. term' = term
      BY <2>2 DEF vars
    <3> QED
      BY <2>2, <3>1
  <2> QED
    BY <2>1, <2>2
<1> QED
  BY <1>1, <1>2, PTL DEF Spec

\* No sequence of operations puts a cursor, saved or in use, or a scroll
\* margin of either screen on a row the window does not have: scroll() and
\* scrlineptr() never index one.  Nor does a cursor leave the window's columns
\* on the right, or on the left before a line has been cramped.
THEOREM WindowContains == Spec => []InsideWindow
<1>1. Good(term) => InsideWindow
  BY DEF Good, TermRec, Cursors, Margins, Region, InsideWindow
<1> QED
  BY <1>1, GoodInvariant, PTL

\* The scrollback never exceeds its size, and tempsblines counts lines it has:
\* the asserts of term_size() hold at every resize.
THEOREM ScrollbackHolds == Spec => []ScrollbackBounded
<1>1. Good(term) => ScrollbackBounded
  BY DEF Good, Bounded, ScrollbackBounded
<1> QED
  BY <1>1, GoodInvariant, PTL

\* What happens on the alternate screen, leaving it included, never changes
\* the main screen or the scrollback; a reset, a resize or a clear may.
THEOREM MainScreenIsolated == Spec => AlternateIsolated
<1> DEFINE Kept == term.alt_which =>
                      \/ who' \in {"reset", "resize"}
                      \/ /\ MainScreen(term') = MainScreen(term)
                         /\ term'.scrollback = term.scrollback \/ who' = "clear"
<1>1. Good(term) /\ [Next]_vars => [Kept]_vars
  <2>1. ASSUME Good(term), Next PROVE Kept
    <3>1. StepFact
      BY <2>1, NextStep
    <3> QED
      BY <3>1 DEF StepFact, Isolated
  <2> QED
    BY <2>1
<1>2. Spec => [][Kept]_vars
  BY <1>1, GoodInvariant, PTL DEF Spec
<1> QED
  BY <1>2 DEF AlternateIsolated

\* With "Reset scrollback on display activity", neither output nor the user
\* leaves the view above the top of what can be shown.
THEOREM ViewStays ==
  ASSUME ScrollOnDisp
  PROVE  Spec => ViewKept
<1> DEFINE Kept == who' # "reconfig" /\ ViewExists(term) => ViewExists(term')
<1>1. Good(term) /\ [Next]_vars => [Kept]_vars
  <2>1. ASSUME Good(term), Next PROVE Kept
    <3>1. StepFact
      BY <2>1, NextStep
    <3> QED
      BY <3>1 DEF StepFact, Viewable, ViewExists
  <2> QED
    BY <2>1
<1>2. Spec => [][Kept]_vars
  BY <1>1, GoodInvariant, PTL DEF Spec
<1> QED
  BY <1>2 DEF ViewKept

-----------------------------------------------------------------------------
(* Shorter and back.                                                       *)

\* Lines are equal when they agree at every row.
LEMMA SameLines ==
  ASSUME NEW s \in Lines, NEW u \in Lines, Len(s) = Len(u),
         \A i \in 1 .. Len(s) : s[i] = u[i]
  PROVE  s = u
  BY SeqEqual DEF Lines

\* All of a sequence, and its two ends.
LEMMA WholeProps ==
  ASSUME NEW s \in Lines, NEW u \in Lines
  PROVE  /\ LastN(s, Len(s)) = s
         /\ LastN(s \o u, Len(u)) = u
         /\ FirstN(s \o u, Len(s)) = s
<1>0. Len(s) \in Nat /\ Len(u) \in Nat
  BY LenProperties DEF Lines
<1> DEFINE j == s \o u
<1>1. /\ j \in Lines /\ Len(j) = Len(s) + Len(u)
      /\ \A i \in 1 .. Len(s) + Len(u) : j[i] = IF i <= Len(s) THEN s[i] ELSE u[i - Len(s)]
  BY JoinProps
<1> HIDE DEF j
<1>2. LastN(s, Len(s)) = s
  <2>1. /\ LastN(s, Len(s)) \in Lines /\ Len(LastN(s, Len(s))) = Len(s)
        /\ \A i \in 1 .. Len(s) : LastN(s, Len(s))[i] = s[Len(s) - Len(s) + i]
    BY <1>0, LastProps
  <2>2. \A i \in 1 .. Len(s) : Len(s) - Len(s) + i = i
    BY <1>0
  <2> QED
    BY <2>1, <2>2, SameLines
<1>3. LastN(j, Len(u)) = u
  <2> DEFINE v == LastN(j, Len(u))
  <2>0. Len(u) \in 0 .. Len(j)
    BY <1>0, <1>1
  <2>1. /\ v \in Lines /\ Len(v) = Len(u)
        /\ \A i \in 1 .. Len(u) : v[i] = j[Len(j) - Len(u) + i]
    BY <1>1, <2>0, LastProps
  <2> HIDE DEF v
  <2>2. ASSUME NEW i \in 1 .. Len(u) PROVE v[i] = u[i]
    <3>1. /\ Len(j) - Len(u) + i = Len(s) + i /\ Len(s) + i \in 1 .. Len(s) + Len(u)
          /\ ~(Len(s) + i <= Len(s)) /\ (Len(s) + i) - Len(s) = i
      BY <1>0, <1>1
    <3> QED
      BY <1>1, <2>1, <3>1
  <2>3. v = u
    BY <2>1, <2>2, SameLines
  <2> QED
    BY <2>3 DEF v
<1>4. FirstN(j, Len(s)) = s
  <2> DEFINE v == FirstN(j, Len(s))
  <2>0. Len(s) \in 0 .. Len(j)
    BY <1>0, <1>1
  <2>1. /\ v \in Lines /\ Len(v) = Len(s)
        /\ \A i \in 1 .. Len(s) : v[i] = j[i]
    BY <1>1, <2>0, FirstProps
  <2> HIDE DEF v
  <2>2. ASSUME NEW i \in 1 .. Len(s) PROVE v[i] = s[i]
    <3>1. i \in 1 .. Len(s) + Len(u) /\ i <= Len(s)
      BY <1>0
    <3> QED
      BY <1>1, <2>1, <3>1
  <2>3. v = s
    BY <2>1, <2>2, SameLines
  <2> QED
    BY <2>3 DEF v
<1> QED
  BY <1>2, <1>3, <1>4 DEF j

\* A screen cut in two, with blank rows for the blank rows that were dropped,
\* is the screen again.
LEMMA PutTogether ==
  ASSUME NEW s \in Lines, NEW p \in Nat, NEW del \in Nat, p + del <= Len(s),
         \A i \in Len(s) - del + 1 .. Len(s) : ~s[i]
  PROVE  FirstN(s, p) \o SubSeq(s, p + 1, Len(s) - del) \o Blanks(del) = s
<1> DEFINE n == Len(s)
           a == FirstN(s, p)
           m == n - del
           b == SubSeq(s, p + 1, m)
           c == Blanks(del)
<1>0. n \in Nat /\ m \in Nat /\ p <= m /\ m <= n /\ m + del = n
  BY LenProperties DEF Lines
<1>1. a \in Lines /\ Len(a) = p /\ \A i \in 1 .. p : a[i] = s[i]
  <2>1. p \in 0 .. Len(s)
    BY <1>0
  <2> QED
    BY <2>1, FirstProps
<1> HIDE DEF m
<1>2. b \in Lines /\ Len(b) = m - p /\ \A i \in 1 .. m - p : b[i] = s[p + i]
  <2>1. /\ p + 1 \in Int /\ m \in Int /\ 1 <= p + 1 /\ m <= Len(s) /\ p + 1 <= m + 1
    BY <1>0
  <2>2. /\ b \in Lines /\ Len(b) = m - (p + 1) + 1
        /\ \A i \in 1 .. m - (p + 1) + 1 : b[i] = s[(p + 1) + i - 1]
    BY <2>1, PartProps
  <2>3. m - (p + 1) + 1 = m - p /\ \A i \in 1 .. m - p : (p + 1) + i - 1 = p + i
    BY <1>0
  <2> HIDE DEF b
  <2> QED
    BY <2>2, <2>3
<1>3. c \in Lines /\ Len(c) = del /\ \A i \in 1 .. del : c[i] = FALSE
  BY BlanksProps
<1> HIDE DEF a, b, c
<1> DEFINE j == a \o b
           w == j \o c
<1>4. /\ j \in Lines /\ Len(j) = Len(a) + Len(b)
      /\ \A i \in 1 .. Len(a) + Len(b) : j[i] = IF i <= Len(a) THEN a[i] ELSE b[i - Len(a)]
  BY <1>1, <1>2, JoinProps
<1>5. Len(j) = m
  BY <1>0, <1>1, <1>2, <1>4
<1> HIDE DEF j
<1>6. /\ w \in Lines /\ Len(w) = Len(j) + Len(c)
      /\ \A i \in 1 .. Len(j) + Len(c) : w[i] = IF i <= Len(j) THEN j[i] ELSE c[i - Len(j)]
  BY <1>3, <1>4, JoinProps
<1> HIDE DEF w
<1>7. Len(w) = n
  BY <1>0, <1>3, <1>5, <1>6
<1>8. ASSUME NEW i \in 1 .. n PROVE w[i] = s[i]
  <2>1. w[i] = IF i <= m THEN j[i] ELSE c[i - m]
    BY <1>3, <1>5, <1>6, <1>7
  <2>2. CASE i <= p
    <3>1. i <= m /\ i \in 1 .. Len(a) + Len(b) /\ i <= Len(a) /\ i \in 1 .. p
      BY <1>0, <1>1, <1>2, <2>2
    <3> QED
      BY <1>1, <1>4, <2>1, <3>1
  <2>3. CASE i > p /\ i <= m
    <3>1. /\ i \in 1 .. Len(a) + Len(b) /\ ~(i <= Len(a)) /\ i - p \in 1 .. m - p
          /\ p + (i - p) = i
      BY <1>0, <1>1, <1>2, <2>3
    <3>2. b[i - p] = s[p + (i - p)]
      BY <1>2, <3>1
    <3> QED
      BY <1>1, <1>4, <2>1, <2>3, <3>1, <3>2
  <2>4. CASE i > m
    <3>1. i - m \in 1 .. del /\ i \in Len(s) - del + 1 .. Len(s) /\ ~(i <= m)
      BY <1>0, <2>4
    <3>2. ~s[i] /\ s[i] \in BOOLEAN
      BY <3>1, ElementOfSeq DEF Lines
    <3> QED
      BY <1>3, <2>1, <3>1, <3>2
  <2> QED
    BY <1>0, <2>2, <2>3, <2>4
<1>9. w = s
  BY <1>6, <1>7, <1>8, SameLines
<1> QED
  BY <1>9 DEF w, j, a, b, c, m

\* Another height on the main screen: a loop of term_size() and the cuts.
LEMMA NewHeight ==
  ASSUME NEW t, Good(t), ~t.alt_which, NEW r \in Lengths, r # t.rows
  PROVE  LET v == IF r > t.rows THEN GrowRows(t, r) ELSE ShrinkRows(t, r)
         IN  term_size(t, r, t.cols, t.savelines) = Cut(v, r, t.cols, t.savelines)
<1> DEFINE v == IF r > t.rows THEN GrowRows(t, r) ELSE ShrinkRows(t, r)
           u == Cut(v, r, t.cols, t.savelines)
           nc == t.cols
           sl == t.savelines
           t0 == swap_screen(t, FALSE, FALSE, FALSE)
           v0 == IF Max2(r, 1) > t.rows THEN GrowRows(t0, Max2(r, 1))
                 ELSE ShrinkRows(t0, Max2(r, 1))
           u0 == Cut(v0, Max2(r, 1), Max2(nc, 1), sl)
<1>1. /\ t.rows \in Lengths /\ nc \in Lengths /\ sl \in Nat /\ t.alt_which = FALSE
      /\ FALSE \in BOOLEAN
  BY DEF Good, TermRec
<1>2. Max2(r, 1) = r /\ Max2(nc, 1) = nc
  BY <1>1 DEF Max2, Lengths
<1>3. t0 = t
  BY <1>1, SwapPlain, Zenon
<1>4. term_size(t, r, nc, sl) = swap_screen(u0, t.alt_which, FALSE, FALSE)
  BY DEF term_size, Cut, CutRows, ResetRows, ClampAll
<1> HIDE DEF t0
<1>5. u0 = u
  BY <1>2, <1>3
<1>6. /\ v \in TermRec /\ LeftEdge(v) /\ v.rows = r /\ Len(v.screen) = r
      /\ v.tempsblines <= Len(v.scrollback) /\ v.alt_which = t.alt_which
  <2>1. CASE r > t.rows
    BY <2>1, GrowProps
  <2>2. CASE ~(r > t.rows)
    <3>1. r <= t.rows
      BY <1>1, <2>2 DEF Lengths
    <3> QED
      BY <2>2, <3>1, ShrinkProps
  <2> QED
    BY <2>1, <2>2
<1> HIDE DEF v, u0
<1>7. Good(u) /\ u.alt_which = FALSE
  BY <1>1, <1>6, CutGood
<1> HIDE DEF u
<1>8. swap_screen(u, FALSE, FALSE, FALSE) = u
  BY <1>1, <1>7, SwapPlain, Zenon
<1> QED
  BY <1>1, <1>4, <1>5, <1>8 DEF u, v

\* When a window of R rows can be made r rows high and restored: the hypotheses
\* of ResizeRoundTrip.
BlankBelow(t) == \A i \in t.curs.y + 2 .. t.rows : ~t.screen[i]
Restorable(t, r) ==
    LET del == Min2(t.rows - r, t.rows - 1 - t.curs.y)
    IN  /\ r < t.rows /\ ~t.alt_which /\ BlankBelow(t)
        /\ Len(t.scrollback) + (t.rows - r) - del <= t.savelines
        /\ t.tempsblines = 0 \/ del = 0

\* The numbers of that round trip: del rows go from below the cursor in row y,
\* p rows off the top, out of R rows, with L lines in a scrollback of size sl of
\* which n may be pulled back.
Numbers(R, r, y, L, n, sl, del, p) ==
    /\ del \in Nat /\ p \in Nat /\ -p \in Int /\ p + del <= R /\ p <= R
    /\ y - p \in 0 .. r - 1 /\ y + (-p) = y - p /\ (y - p) + p = y
    /\ Min2(L + p, sl) = L + p /\ Min2(n + p, L + p) = n + p
    /\ Min2(R - r, n + p) = p /\ R - r - p = del
    /\ y + 2 <= R - del + 1 /\ n + p - p = n /\ L + p - p = L
    /\ Min2(L, sl) = L /\ Min2(n, L) = n

\* They fit.
LEMMA RoundTripNumbers ==
  ASSUME NEW R \in Nat, NEW r \in Nat, 1 <= r, r < R, NEW y \in Nat, y < R,
         NEW L \in Nat, NEW n \in Nat, n <= L, NEW sl \in Nat, L <= sl,
         NEW del, del = Min2(R - r, R - 1 - y), L + (R - r) - del <= sl,
         n = 0 \/ del = 0
  PROVE  Numbers(R, r, y, L, n, sl, del, R - r - del)
  BY DEF Numbers, Min2

\* A number that clamping leaves alone.
LEMMA ClampIdentity ==
  ASSUME NEW v \in Int, NEW k \in Int, v \in 0 .. k - 1
  PROVE  Min2(v, k - 1) = v /\ Clamp(v, 0, k - 1) = v
  BY DEF Min2, Max2, Clamp

\* A window made shorter and then restored is as it was.
LEMMA RoundTrip ==
  ASSUME NEW t, Good(t), NEW r \in Lengths, Restorable(t, r)
  PROVE  LET back == term_size(term_size(t, r, t.cols, t.savelines),
                               t.rows, t.cols, t.savelines)
         IN  /\ back.screen = t.screen /\ back.scrollback = t.scrollback
             /\ back.curs = t.curs /\ back.tempsblines = t.tempsblines
<1> DEFINE R == t.rows
           C == t.cols
           sl == t.savelines
           y == t.curs.y
           L == Len(t.scrollback)
           n == t.tempsblines
           del == Min2(R - r, R - 1 - y)
           p == R - r - del
           q == -p
           off == FirstN(t.screen, p)
           mid == SubSeq(t.screen, p + 1, R - del)
           sb == t.scrollback \o off
           v == ShrinkRows(t, r)
           u == term_size(t, r, C, sl)
           w == GrowRows(u, R)
           back == term_size(u, R, C, sl)
<1>1. /\ R \in Lengths /\ C \in Lengths /\ sl \in Nat /\ n \in Nat /\ L \in Nat
      /\ t.scrollback \in Lines /\ t.screen \in Lines /\ Len(t.screen) = R
      /\ n <= L /\ L <= sl /\ t.curs \in Pos
      /\ t.curs.x < C /\ y \in 0 .. R - 1
  BY LenProperties DEF Good, TermRec, Filled, Bounded, Cursors, OnScreen, Lines
<1>2. /\ r < R /\ L + (R - r) - del <= sl /\ (n = 0 \/ del = 0) /\ BlankBelow(t)
      /\ ~t.alt_which
  BY DEF Restorable
<1>3. /\ R \in Nat /\ r \in Nat /\ C \in Int /\ 1 <= r /\ y \in Nat /\ y < R
      /\ R \in Int /\ r \in Int /\ t.curs.x \in Int /\ ~(r > R) /\ r <= R /\ r # R
      /\ R > r
  BY SMTT(30), <1>1, <1>2 DEF Lengths, Pos
<1> HIDE DEF R, C, sl, y, L, n
<1>4. /\ del \in Nat /\ p \in Nat /\ q \in Int /\ p + del <= R /\ p <= R
      /\ y - p \in 0 .. r - 1 /\ y + q = y - p /\ (y - p) + p = y
      /\ Min2(L + p, sl) = L + p /\ Min2(n + p, L + p) = n + p
      /\ Min2(R - r, n + p) = p /\ R - r - p = del
      /\ y + 2 <= R - del + 1 /\ n + p - p = n /\ L + p - p = L
      /\ Min2(L, sl) = L /\ Min2(n, L) = n
  <2>1. del = Min2(R - r, R - 1 - y)
    OBVIOUS
  <2> HIDE DEF del
  <2>2. Numbers(R, r, y, L, n, sl, del, p)
    BY <1>1, <1>2, <1>3, <2>1, RoundTripNumbers
  <2> QED
    BY <2>2 DEF Numbers
<1>5. /\ v \in TermRec /\ LeftEdge(v) /\ v.alt_which = t.alt_which
      /\ v.rows = r /\ Len(v.screen) = r /\ v.tempsblines <= Len(v.scrollback)
      /\ v.screen = mid /\ v.scrollback = sb /\ v.tempsblines = n + p
      /\ v.curs = ShiftY(t.curs, q)
  BY <1>3, ShrinkProps DEF R, y, n
<1>6. u = Cut(v, r, C, sl)
  BY <1>2, <1>3, NewHeight DEF R, C, sl
<1>7. (u.rows = r /\ u.cols = C /\ u.savelines = sl /\ Good(u) /\ ~u.alt_which)
         => back = Cut(w, R, C, sl)
  BY <1>1, <1>3, NewHeight
<1> HIDE DEF v, u, w, back, mid, q
<1>8. off \in Lines /\ Len(off) = p
  <2> HIDE DEF p
  <2>1. p \in 0 .. Len(t.screen)
    BY <1>1, <1>4
  <2> QED
    BY <1>1, <2>1, FirstProps
<1> HIDE DEF p, del
<1>9. sb \in Lines /\ Len(sb) = L + p
  BY <1>1, <1>8, JoinProps DEF L
<1>10. /\ LastN(sb, Len(sb)) = sb /\ LastN(sb, p) = off
       /\ FirstN(sb, L) = t.scrollback
  <2>1. LastN(sb, Len(sb)) = sb
    BY <1>9, WholeProps
  <2>2. LastN(sb, Len(off)) = off /\ FirstN(sb, Len(t.scrollback)) = t.scrollback
    BY <1>1, <1>8, WholeProps
  <2> QED
    BY <1>8, <2>1, <2>2 DEF L
<1> HIDE DEF sb
<1>11. /\ Good(u) /\ u.alt_which = v.alt_which /\ u.rows = r /\ u.cols = C
       /\ u.savelines = sl /\ u.screen = v.screen
       /\ u.scrollback = LastN(v.scrollback, Min2(Len(v.scrollback), sl))
       /\ u.tempsblines = Min2(v.tempsblines, Min2(Len(v.scrollback), sl))
       /\ u.curs = ClampPos(v.curs, r, C)
  BY <1>1, <1>5, <1>6, CutGood
<1>12. u.screen = mid /\ u.scrollback = sb /\ u.tempsblines = n + p /\ ~u.alt_which
  BY <1>2, <1>4, <1>5, <1>9, <1>10, <1>11
<1>13. u.curs = [x |-> t.curs.x, y |-> y - p]
  <2>1. ShiftY(t.curs, q) \in Pos /\ ShiftY(t.curs, q).x = t.curs.x
        /\ ShiftY(t.curs, q).y = y - p
    BY <1>1, <1>4, ShiftProps DEF y
  <2>2. Min2(t.curs.x, C - 1) = t.curs.x
    BY <1>1, <1>3 DEF Min2
  <2>3. Clamp(y - p, 0, r - 1) = y - p
    BY <1>3, <1>4, ClampIdentity
  <2> QED
    BY <1>5, <1>11, <2>1, <2>2, <2>3 DEF ClampPos
<1>14. back = Cut(w, R, C, sl)
  BY <1>7, <1>11, <1>12
<1>15. /\ w \in TermRec /\ LeftEdge(w) /\ w.alt_which = u.alt_which
       /\ w.rows = R /\ Len(w.screen) = R /\ w.tempsblines <= Len(w.scrollback)
       /\ w.screen = LastN(u.scrollback, Min2(R - u.rows, u.tempsblines)) \o u.screen
                        \o Blanks(R - u.rows - Min2(R - u.rows, u.tempsblines))
       /\ w.scrollback = FirstN(u.scrollback,
                             Len(u.scrollback) - Min2(R - u.rows, u.tempsblines))
       /\ w.tempsblines = u.tempsblines - Min2(R - u.rows, u.tempsblines)
       /\ w.curs = ShiftY(u.curs, Min2(R - u.rows, u.tempsblines))
  <2>1. R > u.rows
    BY <1>3, <1>11
  <2> QED
    BY <1>1, <1>11, <2>1, GrowProps DEF w
<1>16. Min2(R - u.rows, u.tempsblines) = p
  BY <1>4, <1>11, <1>12
<1>17. w.screen = t.screen
  <2>1. w.screen = off \o mid \o Blanks(del)
    BY <1>4, <1>10, <1>11, <1>12, <1>15, <1>16
  <2>2. \A i \in Len(t.screen) - del + 1 .. Len(t.screen) : ~t.screen[i]
    <3>1. \A i \in R - del + 1 .. R : i \in y + 2 .. R
      BY <1>3, <1>4
    <3> QED
      BY <1>1, <1>2, <3>1 DEF BlankBelow, R, y
  <2>3. FirstN(t.screen, p) \o SubSeq(t.screen, p + 1, Len(t.screen) - del)
           \o Blanks(del) = t.screen
    BY <1>1, <1>4, <2>2, PutTogether
  <2> QED
    BY <1>1, <2>1, <2>3 DEF mid
<1>18. w.scrollback = t.scrollback /\ w.tempsblines = n
  <2>1. w.scrollback = FirstN(sb, Len(sb) - p) /\ w.tempsblines = n + p - p
    <3> DEFINE m == Min2(R - u.rows, u.tempsblines)
    <3>1. /\ w.scrollback = FirstN(u.scrollback, Len(u.scrollback) - m)
          /\ w.tempsblines = u.tempsblines - m /\ m = p
      BY <1>15, <1>16
    <3> HIDE DEF m
    <3>2. w.scrollback = FirstN(u.scrollback, Len(u.scrollback) - p)
      BY <3>1, Zenon
    <3>3. w.scrollback = FirstN(sb, Len(sb) - p)
      BY <1>12, <3>2, Zenon
    <3>4. w.tempsblines = u.tempsblines - p
      BY <3>1, Zenon
    <3>5. w.tempsblines = n + p - p
      BY <1>1, <1>4, <1>12, <3>4
    <3> QED
      BY <3>3, <3>5
  <2>2. Len(sb) - p = L
    BY <1>1, <1>4, <1>9
  <2> QED
    BY <1>4, <1>10, <2>1, <2>2
<1>19. ClampPos(w.curs, R, C) = t.curs
  <2>1. w.curs = [x |-> t.curs.x, y |-> y]
    BY SMTT(30), <1>4, <1>13, <1>15, <1>16 DEF ShiftY
  <2>2. Min2(t.curs.x, C - 1) = t.curs.x
    BY <1>1, <1>3 DEF Min2
  <2>3. Clamp(y, 0, R - 1) = y
    BY <1>1, <1>3, ClampIdentity
  <2>4. t.curs = [x |-> t.curs.x, y |-> y]
    BY <1>1 DEF Pos, y
  <2> QED
    BY <2>1, <2>2, <2>3, <2>4 DEF ClampPos
<1>20. /\ back.screen = w.screen
       /\ back.scrollback = LastN(w.scrollback, Min2(Len(w.scrollback), sl))
       /\ back.tempsblines = Min2(w.tempsblines, Min2(Len(w.scrollback), sl))
       /\ back.curs = ClampPos(w.curs, R, C)
  <2>1. /\ w \in TermRec /\ LeftEdge(w) /\ w.rows = R /\ Len(w.screen) = R
        /\ w.tempsblines <= Len(w.scrollback)
    BY <1>15
  <2> QED
    BY <1>1, <1>14, <2>1, CutGood
<1>21. LastN(t.scrollback, L) = t.scrollback
  BY <1>1, WholeProps DEF L
<1>22. /\ back.screen = t.screen /\ back.scrollback = t.scrollback
       /\ back.curs = t.curs /\ back.tempsblines = n
  BY <1>4, <1>17, <1>18, <1>19, <1>20, <1>21 DEF L
<1> QED
  BY <1>22 DEF back, u, R, C, sl, n

\* A sequence of resizes with nothing in between acts like one: from every
\* reachable state, a window made shorter and restored shows the same screen,
\* cursor and scrollback, when no text was below the cursor, the scrollback
\* had room and nothing else could be pulled back.
THEOREM ResizeIsUndone == Spec => []ResizeRoundTrip
<1>1. Good(term) => ResizeRoundTrip
  <2> SUFFICES ASSUME Good(term) PROVE ResizeRoundTrip
    OBVIOUS
  <2>1. term.rows \in Lengths /\ term.tempsblines \in Nat
    BY DEF Good, TermRec
  <2>2. \A r \in 1 .. term.rows - 1 : r \in Lengths /\ r < term.rows
    BY <2>1 DEF Lengths
  <2> DEFINE d(r) == term.rows - r
             del(r) == Min2(d(r), term.rows - 1 - term.curs.y)
  <2>3. ASSUME NEW r \in 1 .. term.rows - 1, ~term.alt_which, BlankBelow(term),
               Len(term.scrollback) + d(r) - del(r) <= term.savelines,
               term.tempsblines = 0 \/ del(r) = 0
        PROVE  Restorable(term, r)
    <3>1. r < term.rows
      BY <2>2
    <3> QED
      BY <2>3, <3>1, Zenon DEF Restorable
  <2> HIDE DEF Restorable
  <2> QED
    BY <2>2, <2>3, RoundTrip DEF ResizeRoundTrip, BlankBelow
<1> QED
  BY <1>1, GoodInvariant, PTL
=============================================================================
