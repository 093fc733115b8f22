------------------------------ MODULE TermLine ------------------------------
(***************************************************************************)
(* The cells of a line in terminal.c: characters that take one cell, two   *)
(* cells (the second holds UCSWIDE) or none (combining characters), the    *)
(* deferred wrap at the right edge, the marks that make copying join       *)
(* wrapped lines (LATTR_WRAPPED, LATTR_WRAPPED2), and the trust status of  *)
(* each line, which shortens it by the width of the trust sigil.           *)
(*                                                                         *)
(* The window is the record t; each C function is an operator on it.  On a *)
(* trusted line the sigil may leave no column at all, and printing then    *)
(* puts the cursor left of the line; a write there is a write before the   *)
(* array of cells, which C leaves undefined, and has no step here.         *)
(* Margins, scrollback and resizing are TermScreen's; attributes, double   *)
(* size lines and VT52 mode are left out.                                  *)
(***************************************************************************)
EXTENDS Integers, Sequences, SequencesExt

CONSTANTS Rows, Cols,
          TRUST_SIGIL_WIDTH,  \* 3 in terminal.h
          MaxText,            \* characters printed
          MaxOps              \* other operations

ASSUME ConstAssumption ==
    /\ Rows \in Nat \ {0} /\ TRUST_SIGIL_WIDTH \in Nat /\ MaxText \in Nat /\ MaxOps \in Nat
    /\ Cols \in Nat \ {0}

VARIABLES t,        \* the window
          typed,    \* history: what has been printed
          ops       \* operations other than printing so far
vars == <<t, typed, ops>>

Xs == 0..Cols - 1
Ys == 0..Rows - 1

\* A cell; `by' is history: the trust status under which it was written.
Cell(ch, by) == [ch |-> ch, cc |-> 0, by |-> by]
Blank == Cell("blank", FALSE)
BlankLine(trusted) == [cells |-> [x \in Xs |-> Blank],
                       wrapped |-> FALSE, wrapped2 |-> FALSE, trusted |-> trusted]

---------------------------------------------------------------------------
Put(u, x, y, c) == [u EXCEPT !.lines[y].cells[x] = c]
Erase(u, y, S) ==
    [u EXCEPT !.lines[y].cells = [x \in Xs |-> IF x \in S THEN Blank ELSE @[x]]]

\* Fault: the line keeps what it held.
check_trust_status_Fault(u, y) == [u EXCEPT !.lines[y].trusted = u.trusted]

\* A line that was last written under the other status loses its contents.
check_trust_status(u, y) ==
    IF u.lines[y].trusted = u.trusted THEN u
    ELSE [u EXCEPT !.lines[y] = BlankLine(u.trusted)]

\* Something is about to happen on one side of the boundary to the left of x.
check_boundary(u, x, y) ==
    IF x <= 0 \/ x > Cols THEN u
    ELSE LET v == check_trust_status(u, y)
         IN  IF x = Cols THEN [v EXCEPT !.lines[y].wrapped2 = FALSE]
             ELSE IF v.lines[y].cells[x].ch = "UCSWIDE" THEN Erase(v, y, {x - 1, x})
             ELSE v

\* scroll() by one line, and the step to the next line at the end of one.
scroll(u) == [u EXCEPT !.lines = [y \in Ys |-> IF y < Rows - 1 THEN @[y + 1]
                                               ELSE BlankLine(u.trusted)],
                       !.scrolled = TRUE]
NextLine(u) == [(IF u.y = Rows - 1 THEN scroll(u) ELSE [u EXCEPT !.y = @ + 1]) EXCEPT !.x = 0]

insch(u, dir, k) ==
    LET n == IF k > Cols - u.x THEN Cols - u.x ELSE k
        v == check_boundary(u, u.x, u.y)
        w == check_trust_status(IF dir < 0 THEN check_boundary(v, u.x + n, u.y) ELSE v, u.y)
    IN  [w EXCEPT !.lines[u.y].cells = [x \in Xs |->
            IF x < u.x THEN @[x]
            ELSE IF dir < 0 THEN (IF x + n \in Xs THEN @[x + n] ELSE Blank)
            ELSE IF x - n >= u.x THEN @[x - n] ELSE Blank]]

\* Printed text has a cell to go to.
Lands(u) == u.x >= 0 \/ (u.wrapnext /\ u.wrap)

linecols(u) == IF u.lines[u.y].trusted THEN Cols - TRUST_SIGIL_WIDTH ELSE Cols

---------------------------------------------------------------------------
(* term_display_graphic_char()                                             *)

\* The wrap put off when the last column was filled, and insert mode.
Prepare(u, width) ==
    LET v == IF u.wrapnext /\ u.wrap
             THEN [NextLine([u EXCEPT !.lines[u.y].wrapped = TRUE]) EXCEPT !.wrapnext = FALSE]
             ELSE u
        w == IF v.insert THEN insch(v, 1, width) ELSE v
    IN  check_trust_status(w, w.y)

Advance(u, cols) ==
    IF u.x + 1 >= cols THEN [u EXCEPT !.x = cols - 1, !.wrapnext = TRUE]
    ELSE [u EXCEPT !.x = @ + 1]

\* Fault: only the left side is checked.
Narrow_Fault(u) ==
    LET v == check_boundary(u, u.x, u.y)
    IN  Advance(Put(v, v.x, v.y, Cell("n", v.trusted)), linecols(u))
Narrow(u) ==
    LET v == check_boundary(check_boundary(u, u.x, u.y), u.x + 1, u.y)
    IN  Advance(Put(v, v.x, v.y, Cell("n", v.trusted)), linecols(u))

\* Fault: the blank is taken for text.
WideWrap_Fault(u) ==
    NextLine([Erase(u, u.y, {u.x}) EXCEPT !.lines[u.y].wrapped = TRUE])

\* No room for both cells: blank the last column, mark it as not part of the
\* text, and go to the next line (whatever the autowrap mode).
WideWrap(u) ==
    LET v == NextLine([Erase(u, u.y, {u.x}) EXCEPT
                        !.lines[u.y].wrapped = TRUE, !.lines[u.y].wrapped2 = TRUE])
    IN  check_boundary(check_boundary(v, v.x, v.y), v.x + 2, v.y)

Wide(u) ==
    LET cols == linecols(u)
        v == check_boundary(check_boundary(u, u.x, u.y), u.x + 2, u.y)
        w == IF v.x >= cols - 1 THEN WideWrap(v) ELSE v
        z == Put(Put(w, w.x, w.y, Cell("w", w.trusted)), w.x + 1, w.y, Cell("UCSWIDE", w.trusted))
    IN  Advance([z EXCEPT !.x = @ + 1], cols)

\* A combining character joins the character before the cursor, or under it
\* when the wrap is pending; in column 0 it is dropped.
Combine(u) ==
    LET v == check_trust_status(u, u.y)
        x == IF v.wrapnext THEN v.x ELSE v.x - 1
        b == IF v.lines[v.y].cells[x].ch = "UCSWIDE" THEN x - 1 ELSE x
    IN  IF v.x <= 0 THEN v
        ELSE [v EXCEPT !.lines[v.y].cells[b].cc = @ + 1, !.lines[v.y].cells[b].by = v.trusted]

---------------------------------------------------------------------------
Text(u, ch) == /\ Len(typed) < MaxText
               /\ t' = u /\ typed' = Append(typed, ch) /\ UNCHANGED ops

PrintNarrow == Lands(t) /\ Text(Narrow(Prepare(t, 1)), "n")
PrintWide == LET u == Prepare(t, 2)
             IN  Lands(t) /\ Text(IF linecols(u) < 2 THEN Narrow(u) ELSE Wide(u), "w")
PrintCombining == Text(Combine(t), "c")

Do(u) == ops < MaxOps /\ t' = u /\ ops' = ops + 1 /\ UNCHANGED typed

\* term_set_trust_status(), between two pieces of output.
SetTrust == Do([t EXCEPT !.trusted = ~@])
InsertMode == Do([t EXCEPT !.insert = ~@])
DECAWM == Do([t EXCEPT !.wrap = ~@])

CUP(x, y) == Do([t EXCEPT !.x = x, !.y = y, !.wrapnext = FALSE])
BS == Do(IF t.x = 0 /\ (t.y = 0 \/ ~t.wrap) THEN t
         ELSE IF t.x = 0 THEN [t EXCEPT !.x = Cols - 1, !.y = @ - 1]
         ELSE IF t.wrapnext THEN [t EXCEPT !.wrapnext = FALSE]
         ELSE [t EXCEPT !.x = @ - 1])

\* Destructive backspace.
DEL == LET u == [t EXCEPT !.x = IF t.x > 0 /\ ~t.wrapnext THEN @ - 1 ELSE @, !.wrapnext = FALSE]
           v == check_boundary(check_boundary(u, u.x, u.y), u.x + 1, u.y)
       IN  t.x >= 0 /\ Do(Erase(v, v.y, {v.x}))

ICH(n) == t.x >= 0 /\ Do(insch(t, 1, n))
DCH(n) == t.x >= 0 /\ Do(insch(t, -1, n))
ECH(k) ==
    LET n == IF k > Cols - t.x THEN Cols - t.x ELSE k
        u == check_trust_status(t, t.y)
        v == check_boundary(check_boundary(u, t.x, t.y), t.x + n, t.y)
    IN  t.x >= 0 /\ Do(Erase(v, t.y, t.x..t.x + n - 1))

\* The loop of erase_lots(), on leaving the last column, checks the line it
\* comes to, although nothing of that line is to be erased.
CheckBelow(u) == IF u.y + 1 \in Ys THEN check_trust_status(u, u.y + 1) ELSE u

\* EL: erase_lots() on the line, to its end, up to the cursor, or all of it.
EraseToEnd ==
    LET u == check_trust_status(check_boundary(t, t.x, t.y), t.y)
    IN  /\ t.x >= 0
        /\ Do(CheckBelow([Erase(u, t.y, t.x..Cols - 1) EXCEPT !.lines[t.y].wrapped = FALSE,
                                                              !.lines[t.y].wrapped2 = FALSE]))
EraseToCursor ==
    LET u == check_trust_status(check_boundary(t, t.x, t.y), t.y)
    IN  Do(Erase(u, t.y, 0..t.x))
EraseLine == Do(CheckBelow([t EXCEPT !.lines[t.y] = BlankLine(t.trusted)]))

\* The alignment test fills every line as it is.
DECALN == Do([t EXCEPT !.lines = [y \in Ys |->
                [cells |-> [x \in Xs |-> Cell("n", t.trusted)],
                 wrapped |-> FALSE, wrapped2 |-> FALSE, trusted |-> @[y].trusted]]])

Init == /\ \E b \in BOOLEAN : t = [lines |-> [y \in Ys |-> BlankLine(FALSE)],
                x |-> 0, y |-> 0, wrapnext |-> FALSE, insert |-> FALSE, wrap |-> TRUE,
                trusted |-> b, scrolled |-> FALSE]
        /\ typed = << >> /\ ops = 0

Next == \/ PrintNarrow \/ PrintWide \/ PrintCombining
        \/ SetTrust \/ InsertMode \/ DECAWM \/ BS \/ DEL
        \/ \E x \in Xs, y \in Ys : CUP(x, y)
        \/ \E n \in 1..2 : ICH(n) \/ DCH(n) \/ ECH(n)
        \/ EraseToEnd \/ EraseToCursor \/ EraseLine \/ DECALN

Spec == Init /\ [][Next]_vars
---------------------------------------------------------------------------
(* Copying: clipme() over the whole screen.                                *)

\* How far a line is copied: to its end if it wraps, less the sigil and the
\* column a wide character would not fit in; else up to the last character.
CopyEnd(l) ==
    IF l.wrapped
    THEN Cols - (IF l.trusted THEN TRUST_SIGIL_WIDTH ELSE 0) - (IF l.wrapped2 THEN 1 ELSE 0)
    ELSE CHOOSE n \in 0..Cols : /\ \A x \in n..Cols - 1 : l.cells[x] = Blank
                                /\ n = 0 \/ l.cells[n - 1] # Blank

CopyCell(c) == IF c.ch = "UCSWIDE" THEN << >>
               ELSE <<c.ch>> \o [i \in 1..c.cc |-> "c"]
CopyLine(l) == FlattenSeq([i \in 1..CopyEnd(l) |-> CopyCell(l.cells[i - 1])])
                \o (IF l.wrapped THEN << >> ELSE <<"nl">>)
clipme(u) == FlattenSeq([y \in 1..Rows |-> CopyLine(u.lines[y - 1])])
---------------------------------------------------------------------------
(* Properties.                                                             *)

\* The window is well formed; in particular the cursor is on it, whatever the
\* trust status has done to the usable width (every access to chars[curs.x]),
\* unless the window is no wider than the sigil: term_size() takes such a window,
\* and there text on a trusted line leaves the cursor at linecols - 1, to the
\* left of the line.
TypeOK ==
    /\ t.x < Cols /\ (t.x < 0 => Cols <= TRUST_SIGIL_WIDTH)
    /\ t.y \in Ys /\ t.wrapnext \in BOOLEAN
    /\ \A y \in Ys : /\ DOMAIN t.lines[y].cells = Xs
                     /\ \A x \in Xs : t.lines[y].cells[x].ch \in {"blank", "n", "w", "UCSWIDE"}

Whole(l) == \A x \in Xs :
    /\ l.cells[x].ch = "UCSWIDE" => x > 0 /\ l.cells[x - 1].ch = "w"
    /\ l.cells[x].ch = "w" => x + 1 \in Xs /\ l.cells[x + 1].ch = "UCSWIDE"
PairsWhole == \A y \in Ys : t.lines[y].trusted \/ Whole(t.lines[y])

\* Both halves of a wide character on a line of the session's own output stay
\* together, as check_boundary() is there to see to: no step parts them but an
\* insertion, which pushes the right half off the end of the line, and an erase
\* up to the cursor on the left half, which call it on one side only.
PairsKept == [][PairsWhole => \/ PairsWhole' \/ EraseToCursor \/ t.insert
                              \/ \E n \in 1..2 : ICH(n)]_vars

\* What has been printed, and nothing else, is what copying the screen gives
\* back, however the characters fell on the lines: a wrapped line is joined to
\* the next, and the column left blank before a wide character is left out.
NoLeadingC(s) == IF s = << >> \/ s[1] # "c" THEN s
                 ELSE LET S == {i \in 1..Len(s) : s[i] # "c"}
                      IN  IF S = {} THEN << >>
                          ELSE SubSeq(s, CHOOSE i \in S : \A j \in S : i <= j, Len(s))
Trimmed(s) == LET S == {i \in 1..Len(s) : s[i] # "nl"}
              IN  IF S = {} THEN << >> ELSE SubSeq(s, 1, CHOOSE i \in S : \A j \in S : j <= i)
PasteGivesBack ==
    ops = 0 => IF t.scrolled THEN IsSuffix(Trimmed(clipme(t)), typed)
               ELSE Trimmed(clipme(t)) = NoLeadingC(typed)

\* A line holds text of one trust status only, the one it is marked with: "used
\* to annotate every line of the terminal that a graphic character is output
\* to" (terminal.h:284).  Only the alignment test does not look.
OneStatus(l) == \A x \in Xs : l.cells[x] # Blank => l.cells[x].by = l.trusted
StatusKept == [][(\A y \in Ys : OneStatus(t.lines[y]))
                    => (\A y \in Ys : OneStatus(t.lines[y])') \/ DECALN]_vars
=============================================================================
