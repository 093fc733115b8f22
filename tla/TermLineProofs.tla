--------------------------- MODULE TermLineProofs ---------------------------
(***************************************************************************)
(* Proofs about TermLine, for every size of the window, width of the trust *)
(* sigil and bound on the text.  The lemmas follow the C functions: first  *)
(* what an edit does to one line, then check_trust_status() and            *)
(* check_boundary(), then the functions that print, insert and erase.      *)
(***************************************************************************)
EXTENDS TermLine, TLAPS

CellRec == [ch : {"blank", "n", "w", "UCSWIDE"}, cc : Nat, by : BOOLEAN]
LineRec == [cells : [Xs -> CellRec], wrapped : BOOLEAN, wrapped2 : BOOLEAN,
            trusted : BOOLEAN]
\* Where the cursor can be: on its line, or to the left of it when the sigil
\* leaves a trusted line no column.
Columns == {x \in Int : x < Cols /\ (x < 0 => Cols <= TRUST_SIGIL_WIDTH)}
Window == [lines : [Ys -> LineRec], x : Columns, y : Ys, wrapnext : BOOLEAN,
           insert : BOOLEAN, wrap : BOOLEAN, trusted : BOOLEAN, scrolled : BOOLEAN]

\* The two properties of a window, line by line.
Fine(l) == l.trusted \/ Whole(l)
Pairs(u) == \A y \in Ys : Fine(u.lines[y])
Clean(u) == \A y \in Ys : OneStatus(u.lines[y])

\* No wide character lies across the boundary to the left of x.
Apart(l, x) == x \in Xs => l.cells[x].ch # "UCSWIDE"

\* The line the cursor is on has the status of what is being printed.
Marked(u) == u.lines[u.y].trusted = u.trusted

\* What is not a line stays.
SameRest(u, v) ==
    /\ v.x = u.x /\ v.y = u.y /\ v.wrapnext = u.wrapnext /\ v.insert = u.insert
    /\ v.wrap = u.wrap /\ v.trusted = u.trusted

Tidy(u, v) == v \in Window /\ (Clean(u) => Clean(v))
Kept(u, v) == Tidy(u, v) /\ (Pairs(u) => Pairs(v))

\* Line y is set to m and the rest stays.
LineSet(u, v, y, m) ==
    /\ v \in Window /\ SameRest(u, v) /\ v.lines[y] = m
    /\ (OneStatus(u.lines[y]) => OneStatus(m)) => Tidy(u, v)
    /\ (Fine(u.lines[y]) => Fine(m)) => (Pairs(u) => Pairs(v))

\* The blank cell and the blank line are well formed.
LEMMA BlankTypes ==
    /\ Blank \in CellRec
    /\ \A b \in BOOLEAN : /\ BlankLine(b) \in LineRec
                          /\ BlankLine(b).trusted = b
                          /\ OneStatus(BlankLine(b)) /\ Whole(BlankLine(b))
                          /\ \A x \in Int : Apart(BlankLine(b), x)
<1>1. Blank \in CellRec
  BY DEF Blank, Cell, CellRec
<1>2. ASSUME NEW b \in BOOLEAN
      PROVE  /\ BlankLine(b) \in LineRec
             /\ BlankLine(b).trusted = b
             /\ OneStatus(BlankLine(b)) /\ Whole(BlankLine(b))
             /\ \A x \in Int : Apart(BlankLine(b), x)
  <2>1. BlankLine(b) \in LineRec /\ BlankLine(b).trusted = b
    BY <1>1 DEF BlankLine, LineRec
  <2>2. \A x \in Xs : BlankLine(b).cells[x] = Blank
    BY DEF BlankLine
  <2>3. Blank.ch = "blank"
    BY DEF Blank, Cell
  <2> QED
    BY <2>1, <2>2, <2>3 DEF OneStatus, Whole, Apart
<1> QED
  BY <1>1, <1>2

\* A change of one line, and of nothing else: the window is as good as the line.
LEMMA SetLine ==
    ASSUME NEW u \in Window, NEW y \in Ys, NEW m \in LineRec,
           NEW v, v = [u EXCEPT !.lines[y] = m]
    PROVE  LineSet(u, v, y, m)
<1>1. v \in Window /\ SameRest(u, v) /\ v.lines[y] = m
  BY DEF Window, SameRest
<1>2. \A z \in Ys : z # y => v.lines[z] = u.lines[z]
  BY DEF Window
<1>3. (OneStatus(u.lines[y]) => OneStatus(m)) => Tidy(u, v)
  BY <1>1, <1>2 DEF Tidy, Clean
<1>4. (Fine(u.lines[y]) => Fine(m)) => (Pairs(u) => Pairs(v))
  BY <1>1, <1>2 DEF Pairs
<1> QED
  BY <1>1, <1>3, <1>4 DEF LineSet

\* The cells of a line replaced, seen as a line.
LEMMA NewCells ==
    ASSUME NEW u \in Window, NEW y \in Ys, NEW f \in [Xs -> CellRec]
    PROVE  /\ [u.lines[y] EXCEPT !.cells = f] \in LineRec
           /\ [u.lines[y] EXCEPT !.cells = f].cells = f
           /\ [u.lines[y] EXCEPT !.cells = f].trusted = u.lines[y].trusted
           /\ [u EXCEPT !.lines[y].cells = f]
                = [u EXCEPT !.lines[y] = [u.lines[y] EXCEPT !.cells = f]]
<1>1. u.lines[y] \in LineRec
  BY DEF Window
<1> QED
  BY <1>1 DEF LineRec

\* Where the cursor is.
LEMMA WindowOf ==
    ASSUME NEW u \in Window
    PROVE  /\ u.x \in Columns /\ u.y \in Ys /\ u.x \in Int /\ u.y \in Int /\ u.trusted \in BOOLEAN
           /\ u.x < Cols /\ 0 <= u.y /\ u.y < Rows /\ Cols \in Int /\ Rows \in Int
           /\ Xs = 0..Cols - 1 /\ Ys = 0..Rows - 1
           /\ u.x >= 0 => u.x \in Xs
<1>1. u.x \in Columns /\ u.y \in Ys /\ u.trusted \in BOOLEAN
  BY DEF Window
<1> QED
  BY <1>1, ConstAssumption DEF Xs, Ys, Columns

\* The columns of the line are among the places the cursor can be.
LEMMA XsInColumns == /\ \A x \in Xs : x \in Columns
                     /\ 0 \in Xs /\ Cols - 1 \in Xs
BY ConstAssumption DEF Xs, Columns

\* What a line of a window holds.
LEMMA LineOf ==
    ASSUME NEW u \in Window, NEW y \in Ys
    PROVE  /\ u.lines[y] \in LineRec /\ u.lines[y].cells \in [Xs -> CellRec]
           /\ u.lines[y].trusted \in BOOLEAN /\ u.trusted \in BOOLEAN
<1>1. u.lines[y] \in LineRec /\ u.trusted \in BOOLEAN
  BY DEF Window
<1> QED
  BY <1>1 DEF LineRec

---------------------------------------------------------------------------
(* One line: cells erased, written, shifted.                               *)

\* The cells of a line after the cells S of it have been erased.
Erased(l, S) == [x \in Xs |-> IF x \in S THEN Blank ELSE l.cells[x]]

\* What erasing the cells S of line l keeps, the result being m.
ErasedFrom(l, m, S) ==
    /\ m \in LineRec /\ m.trusted = l.trusted
    /\ OneStatus(l) => OneStatus(m)
    /\ \A x \in Int : Apart(l, x) => Apart(m, x)
    /\ \A x \in S : Apart(m, x)
    /\ Whole(l) /\ (\A x \in Xs : l.cells[x].ch = "w" => (x \in S <=> x + 1 \in S))
         => Whole(m)

\* Erase() leaves the line well formed and of one status, and makes no right
\* half; it keeps the halves together if it takes both or none of each pair.
LEMMA ErasedLine ==
    ASSUME NEW u \in Window, NEW y \in Ys, NEW S, NEW l, l = u.lines[y],
           NEW m, m = [l EXCEPT !.cells = Erased(l, S)]
    PROVE  /\ ErasedFrom(l, m, S)
           /\ Erase(u, y, S) = [u EXCEPT !.lines[y] = m]
<1>1. l \in LineRec /\ l.cells \in [Xs -> CellRec]
  BY LineOf
<1>2. Erased(l, S) \in [Xs -> CellRec]
  BY <1>1, BlankTypes DEF Erased
<1>3. m \in LineRec /\ m.trusted = l.trusted /\ m.cells = Erased(l, S)
  BY <1>1, <1>2, NewCells
<1>4. Erase(u, y, S) = [u EXCEPT !.lines[y] = m]
  BY <1>1, <1>2, NewCells DEF Erase, Erased
<1>5. Blank.ch = "blank"
  BY DEF Blank, Cell
<1>6. \A x \in Xs : m.cells[x] = IF x \in S THEN Blank ELSE l.cells[x]
  BY <1>3 DEF Erased
<1>7. OneStatus(l) => OneStatus(m)
  BY <1>3, <1>6 DEF OneStatus
<1>8. /\ \A x \in Int : Apart(l, x) => Apart(m, x)
      /\ \A x \in S : Apart(m, x)
  BY <1>5, <1>6 DEF Apart
<1>9. ASSUME Whole(l), \A x \in Xs : l.cells[x].ch = "w" => (x \in S <=> x + 1 \in S)
      PROVE  Whole(m)
  <2> SUFFICES ASSUME NEW x \in Xs
               PROVE  /\ m.cells[x].ch = "UCSWIDE" => x > 0 /\ m.cells[x - 1].ch = "w"
                      /\ m.cells[x].ch = "w" => x + 1 \in Xs /\ m.cells[x + 1].ch = "UCSWIDE"
    BY DEF Whole
  <2>0. x \in Int /\ (x > 0 => x - 1 \in Xs) /\ x - 1 + 1 = x
    BY ConstAssumption DEF Xs
  <2>1. CASE m.cells[x].ch = "UCSWIDE"
    <3>1. x \notin S /\ l.cells[x].ch = "UCSWIDE"
      BY <2>1, <1>5, <1>6
    <3>2. x > 0 /\ l.cells[x - 1].ch = "w" /\ x - 1 \in Xs
      BY <3>1, <1>9, <2>0 DEF Whole
    <3>3. x - 1 \notin S
      BY <3>1, <3>2, <1>9, <2>0
    <3> QED
      BY <2>1, <3>2, <3>3, <1>6
  <2>2. CASE m.cells[x].ch = "w"
    <3>1. x \notin S /\ l.cells[x].ch = "w"
      BY <2>2, <1>5, <1>6
    <3>2. x + 1 \in Xs /\ l.cells[x + 1].ch = "UCSWIDE" /\ x + 1 \notin S
      BY <3>1, <1>9 DEF Whole
    <3> QED
      BY <2>2, <3>2, <1>6
  <2> QED
    BY <2>1, <2>2
<1> QED
  BY <1>3, <1>4, <1>7, <1>8, <1>9 DEF ErasedFrom

\* The same, of the window.
LEMMA EraseSets ==
    ASSUME NEW u \in Window, NEW y \in Ys, NEW S, NEW v, v = Erase(u, y, S)
    PROVE  LineSet(u, v, y, v.lines[y]) /\ ErasedFrom(u.lines[y], v.lines[y], S)
<1> DEFINE l == u.lines[y]
           m == [l EXCEPT !.cells = Erased(l, S)]
<1> HIDE DEF l, m
<1>1. l = u.lines[y] /\ m = [l EXCEPT !.cells = Erased(l, S)]
  BY DEF l, m
<1>2. ErasedFrom(l, m, S) /\ Erase(u, y, S) = [u EXCEPT !.lines[y] = m]
  BY <1>1, ErasedLine
<1>3. m \in LineRec
  BY <1>2 DEF ErasedFrom
<1>4. LineSet(u, v, y, m)
  BY <1>2, <1>3, SetLine
<1>5. v.lines[y] = m
  BY <1>4 DEF LineSet
<1> QED
  BY <1>1, <1>2, <1>4, <1>5

\* A range of cells may be erased when no pair lies across either end of it.
LEMMA RangeClosed ==
    ASSUME NEW l, Whole(l), NEW a \in Int, NEW b \in Int,
           Apart(l, a), Apart(l, b + 1)
    PROVE  \A x \in Xs : l.cells[x].ch = "w" => (x \in a..b <=> x + 1 \in a..b)
<1> SUFFICES ASSUME NEW x \in Xs, l.cells[x].ch = "w"
             PROVE  x \in a..b <=> x + 1 \in a..b
  OBVIOUS
<1>1. x \in Int /\ x + 1 \in Xs /\ l.cells[x + 1].ch = "UCSWIDE"
  BY ConstAssumption DEF Whole, Xs
<1>2. x + 1 # a /\ x + 1 # b + 1
  BY <1>1 DEF Apart
<1> QED
  BY <1>1, <1>2

\* A single-width character at x: its line stays of one status if it is written
\* under that status, and whole if no pair lies across either side of x.
LEMMA NarrowCell ==
    ASSUME NEW l \in LineRec, NEW x \in Xs, NEW by \in BOOLEAN,
           NEW m, m = [l EXCEPT !.cells[x] = Cell("n", by)]
    PROVE  /\ m \in LineRec /\ m.trusted = l.trusted
           /\ by = l.trusted => (OneStatus(l) => OneStatus(m))
           /\ Whole(l) /\ Apart(l, x) /\ Apart(l, x + 1) => Whole(m)
<1>1. l.cells \in [Xs -> CellRec]
  BY DEF LineRec
<1>2. Cell("n", by) \in CellRec /\ Cell("n", by).ch = "n" /\ Cell("n", by).by = by
  BY DEF Cell, CellRec
<1>3. m \in LineRec /\ m.trusted = l.trusted
  BY <1>1, <1>2 DEF LineRec
<1>4. \A z \in Xs : m.cells[z] = IF z = x THEN Cell("n", by) ELSE l.cells[z]
  BY <1>1 DEF LineRec
<1>5. by = l.trusted => (OneStatus(l) => OneStatus(m))
  BY <1>2, <1>3, <1>4 DEF OneStatus
<1>6. ASSUME Whole(l), Apart(l, x), Apart(l, x + 1)
      PROVE  Whole(m)
  <2> SUFFICES ASSUME NEW z \in Xs
               PROVE  /\ m.cells[z].ch = "UCSWIDE" => z > 0 /\ m.cells[z - 1].ch = "w"
                      /\ m.cells[z].ch = "w" => z + 1 \in Xs /\ m.cells[z + 1].ch = "UCSWIDE"
    BY DEF Whole
  <2>0. z \in Int /\ x \in Int /\ (z > 0 => z - 1 \in Xs)
    BY ConstAssumption DEF Xs
  <2>1. CASE z = x
    BY <2>1, <1>2, <1>4
  <2>2. CASE z # x
    <3>1. m.cells[z] = l.cells[z]
      BY <2>2, <1>4
    <3>2. CASE l.cells[z].ch = "UCSWIDE"
      <4>1. z > 0 /\ l.cells[z - 1].ch = "w"
        BY <3>2, <1>6 DEF Whole
      <4>2. z - 1 # x
        BY <3>2, <1>6, <2>0 DEF Apart
      <4> QED
        BY <3>1, <3>2, <4>1, <4>2, <2>0, <1>4
    <3>3. CASE l.cells[z].ch = "w"
      <4>1. z + 1 \in Xs /\ l.cells[z + 1].ch = "UCSWIDE"
        BY <3>3, <1>6 DEF Whole
      <4>2. z + 1 # x
        BY <4>1, <1>6 DEF Apart
      <4> QED
        BY <3>1, <3>3, <4>1, <4>2, <1>4
    <3> QED
      BY <3>1, <3>2, <3>3
  <2> QED
    BY <2>1, <2>2
<1> QED
  BY <1>3, <1>5, <1>6

\* The same for a double-width character at x and x + 1.
LEMMA WideCells ==
    ASSUME NEW l \in LineRec, NEW x \in Xs, x + 1 \in Xs, NEW by \in BOOLEAN,
           NEW m, m = [l EXCEPT !.cells = [[@ EXCEPT ![x] = Cell("w", by)]
                                              EXCEPT ![x + 1] = Cell("UCSWIDE", by)]]
    PROVE  /\ m \in LineRec /\ m.trusted = l.trusted
           /\ by = l.trusted => (OneStatus(l) => OneStatus(m))
           /\ Whole(l) /\ Apart(l, x) /\ Apart(l, x + 2) => Whole(m)
<1>0. x \in Int /\ x # x + 1 /\ x + 1 - 1 = x /\ x >= 0 /\ x + 1 > 0
  BY ConstAssumption DEF Xs
<1>1. l.cells \in [Xs -> CellRec]
  BY DEF LineRec
<1>2. /\ Cell("w", by) \in CellRec /\ Cell("w", by).ch = "w" /\ Cell("w", by).by = by
      /\ Cell("UCSWIDE", by) \in CellRec /\ Cell("UCSWIDE", by).ch = "UCSWIDE"
      /\ Cell("UCSWIDE", by).by = by
  BY DEF Cell, CellRec
<1>3. m \in LineRec /\ m.trusted = l.trusted
  BY <1>1, <1>2 DEF LineRec
<1>4. /\ m.cells[x] = Cell("w", by) /\ m.cells[x + 1] = Cell("UCSWIDE", by)
      /\ \A z \in Xs : z # x /\ z # x + 1 => m.cells[z] = l.cells[z]
  BY <1>0, <1>1 DEF LineRec
<1>5. by = l.trusted => (OneStatus(l) => OneStatus(m))
  BY <1>2, <1>3, <1>4 DEF OneStatus
<1>6. ASSUME Whole(l), Apart(l, x), Apart(l, x + 2)
      PROVE  Whole(m)
  <2> SUFFICES ASSUME NEW z \in Xs
               PROVE  /\ m.cells[z].ch = "UCSWIDE" => z > 0 /\ m.cells[z - 1].ch = "w"
                      /\ m.cells[z].ch = "w" => z + 1 \in Xs /\ m.cells[z + 1].ch = "UCSWIDE"
    BY DEF Whole
  <2>0. z \in Int /\ (z > 0 => z - 1 \in Xs)
    BY ConstAssumption DEF Xs
  <2>1. CASE z = x
    BY <2>1, <1>2, <1>4
  <2>2. CASE z = x + 1
    BY <2>2, <1>0, <1>2, <1>4
  <2>3. CASE z # x /\ z # x + 1
    <3>1. m.cells[z] = l.cells[z]
      BY <2>3, <1>4
    <3>2. CASE l.cells[z].ch = "UCSWIDE"
      <4>1. z > 0 /\ l.cells[z - 1].ch = "w"
        BY <3>2, <1>6 DEF Whole
      <4>2. z # x + 2
        BY <3>2, <1>6 DEF Apart
      <4>3. z - 1 # x /\ z - 1 # x + 1
        BY <2>3, <4>2, <2>0, <1>0
      <4> QED
        BY <3>1, <3>2, <4>1, <4>3, <2>0, <1>4
    <3>3. CASE l.cells[z].ch = "w"
      <4>1. z + 1 \in Xs /\ l.cells[z + 1].ch = "UCSWIDE"
        BY <3>3, <1>6 DEF Whole
      <4>2. z + 1 # x /\ z + 1 # x + 1
        BY <4>1, <2>3, <2>0, <1>0, <1>6 DEF Apart
      <4> QED
        BY <3>1, <3>3, <4>1, <4>2, <1>4
    <3> QED
      BY <3>1, <3>2, <3>3
  <2> QED
    BY <2>1, <2>2, <2>3
<1> QED
  BY <1>3, <1>5, <1>6

---------------------------------------------------------------------------
(* The checks that come before every change of a line.                     *)

\* What check_trust_status() and check_boundary() keep, line y being checked.
Checked(u, v, y) ==
    /\ Kept(u, v) /\ SameRest(u, v)
    /\ u.lines[y].trusted = u.trusted => v.lines[y].trusted = v.trusted
    /\ \A z \in Int : Apart(u.lines[y], z) => Apart(v.lines[y], z)

\* Two checks of the same line keep what one keeps.
LEMMA CheckedTwice ==
    ASSUME NEW u, NEW v, NEW w, NEW y, Checked(u, v, y), Checked(v, w, y)
    PROVE  Checked(u, w, y)
BY DEF Checked, Kept, Tidy, SameRest

\* check_trust_status() gives the line the status of what is being printed.
LEMMA TrustChecked ==
    ASSUME NEW u \in Window, NEW y \in Ys, NEW v, v = check_trust_status(u, y)
    PROVE  Checked(u, v, y) /\ v.lines[y].trusted = v.trusted
<1>1. CASE u.lines[y].trusted = u.trusted
  <2>1. v = u
    BY <1>1 DEF check_trust_status
  <2> QED
    BY <1>1, <2>1 DEF Checked, Kept, Tidy, SameRest
<1>2. CASE u.lines[y].trusted # u.trusted
  <2>1. u.trusted \in BOOLEAN
    BY LineOf
  <2> DEFINE m == BlankLine(u.trusted)
  <2>2. m \in LineRec /\ m.trusted = u.trusted /\ OneStatus(m) /\ Whole(m)
        /\ \A x \in Int : Apart(m, x)
    BY <2>1, BlankTypes
  <2>3. v = [u EXCEPT !.lines[y] = m]
    BY <1>2 DEF check_trust_status
  <2> HIDE DEF m
  <2>4. LineSet(u, v, y, m)
    BY <2>2, <2>3, SetLine
  <2> QED
    BY <2>2, <2>4 DEF LineSet, Checked, Kept, Fine, SameRest
<1> QED
  BY <1>1, <1>2

\* check_boundary() leaves no pair across the boundary, and the line with the
\* status of what is being printed, unless x is outside 1..Cols.
LEMMA BoundaryChecked ==
    ASSUME NEW u \in Window, NEW y \in Ys, NEW x \in Int, NEW v, v = check_boundary(u, x, y)
    PROVE  /\ Checked(u, v, y)
           /\ x > 0 /\ x <= Cols => v.lines[y].trusted = v.trusted
           /\ x > 0 => Apart(v.lines[y], x)
<1>0. Cols \in Int /\ Xs = 0..Cols - 1 /\ \A z \in Xs : z \in Int
  BY ConstAssumption DEF Xs
<1>1. CASE x <= 0 \/ x > Cols
  <2>1. v = u
    BY <1>1 DEF check_boundary
  <2>2. x > 0 => x \notin Xs
    BY <1>1, <1>0
  <2> QED
    BY <1>0, <1>1, <2>1, <2>2 DEF Checked, Kept, Tidy, SameRest, Apart
<1>2. CASE ~(x <= 0 \/ x > Cols)
  <2> DEFINE w == check_trust_status(u, y)
             l == w.lines[y]
  <2>1. Checked(u, w, y) /\ l.trusted = w.trusted
    BY TrustChecked
  <2>2. w \in Window
    BY <2>1 DEF Checked, Kept, Tidy
  <2>3. v = IF x = Cols THEN [w EXCEPT !.lines[y].wrapped2 = FALSE]
            ELSE IF l.cells[x].ch = "UCSWIDE" THEN Erase(w, y, {x - 1, x}) ELSE w
    BY <1>2 DEF check_boundary
  <2> HIDE DEF w
  <2>4. l \in LineRec
    BY <2>2, LineOf
  <2>5. CASE x = Cols
    <3> DEFINE m == [l EXCEPT !.wrapped2 = FALSE]
    <3>1. m \in LineRec /\ m.trusted = l.trusted /\ m.cells = l.cells
      BY <2>4 DEF LineRec
    <3>2. v = [w EXCEPT !.lines[y] = m]
      BY <2>3, <2>5
    <3> HIDE DEF m
    <3>3. LineSet(w, v, y, m)
      BY <2>2, <3>1, <3>2, SetLine
    <3>4. (OneStatus(l) => OneStatus(m)) /\ (Fine(l) => Fine(m))
      BY <3>1 DEF OneStatus, Fine, Whole
    <3>5. \A z \in Int : Apart(l, z) => Apart(m, z)
      BY <3>1 DEF Apart
    <3>6. Checked(w, v, y)
      BY <2>1, <3>1, <3>3, <3>4, <3>5 DEF LineSet, Checked, Kept, SameRest
    <3>7. x \notin Xs
      BY <2>5, <1>0
    <3> QED
      BY <2>1, <3>1, <3>3, <3>6, <3>7, CheckedTwice DEF LineSet, Apart, SameRest
  <2>6. CASE x # Cols /\ l.cells[x].ch = "UCSWIDE"
    <3> DEFINE S == {x - 1, x}
               m == v.lines[y]
    <3>0. v = Erase(w, y, S)
      BY <2>3, <2>6
    <3>3. LineSet(w, v, y, m) /\ ErasedFrom(l, m, S)
      BY <2>2, <3>0, EraseSets
    <3>1. /\ m.trusted = l.trusted
          /\ OneStatus(l) => OneStatus(m)
          /\ \A z \in Int : Apart(l, z) => Apart(m, z)
          /\ Apart(m, x)
          /\ Whole(l) /\ (\A z \in Xs : l.cells[z].ch = "w" => (z \in S <=> z + 1 \in S))
               => Whole(m)
      BY <3>3 DEF ErasedFrom
    <3>2. ASSUME Whole(l)
          PROVE  \A z \in Xs : l.cells[z].ch = "w" => (z \in S <=> z + 1 \in S)
      <4> SUFFICES ASSUME NEW z \in Xs, l.cells[z].ch = "w"
                   PROVE  z \in S <=> z + 1 \in S
        OBVIOUS
      <4>1. x \in Xs /\ z \in Int /\ z + 1 \in Xs /\ l.cells[z + 1].ch = "UCSWIDE"
        BY <1>0, <1>2, <2>6, <3>2 DEF Whole
      <4>2. z # x
        BY <2>6
      <4>3. l.cells[x - 1].ch = "w"
        BY <2>6, <3>2, <4>1 DEF Whole
      <4>4. z + 1 # x - 1
        BY <4>1, <4>3
      <4> QED
        BY <4>1, <4>2, <4>4
    <3> HIDE DEF S
    <3>4. Fine(l) => Fine(m)
      BY <3>1, <3>2 DEF Fine
    <3>5. Checked(w, v, y)
      BY <2>1, <3>1, <3>3, <3>4 DEF LineSet, Checked, Kept, SameRest
    <3> QED
      BY <2>1, <3>1, <3>3, <3>5, CheckedTwice DEF LineSet, SameRest
  <2>7. CASE x # Cols /\ l.cells[x].ch # "UCSWIDE"
    <3>1. v = w
      BY <2>3, <2>7
    <3> QED
      BY <2>1, <2>7, <3>1 DEF Apart
  <2> QED
    BY <2>5, <2>6, <2>7
<1> QED
  BY <1>1, <1>2

\* check_boundary() on both sides of the cells from a up to b.
LEMMA BothChecked ==
    ASSUME NEW u \in Window, NEW y \in Ys, NEW a \in Int, a >= 0, NEW b \in Int,
           b > 0, NEW v, v = check_boundary(check_boundary(u, a, y), b, y)
    PROVE  /\ Checked(u, v, y) /\ v \in Window
           /\ b <= Cols => v.lines[y].trusted = v.trusted
           /\ Whole(v.lines[y]) => Apart(v.lines[y], a)
           /\ Apart(v.lines[y], b)
<1> DEFINE w == check_boundary(u, a, y)
<1>1. Checked(u, w, y) /\ (a > 0 => Apart(w.lines[y], a))
  BY BoundaryChecked
<1>2. w \in Window
  BY <1>1 DEF Checked, Kept, Tidy
<1> HIDE DEF w
<1>3. v = check_boundary(w, b, y)
  BY DEF w
<1>4. /\ Checked(w, v, y) /\ Apart(v.lines[y], b)
      /\ b <= Cols => v.lines[y].trusted = v.trusted
  BY <1>2, <1>3, BoundaryChecked
<1>5. Checked(u, v, y) /\ v \in Window
  BY <1>1, <1>4, CheckedTwice DEF Checked, Kept, Tidy
<1>6. a > 0 => Apart(v.lines[y], a)
  BY <1>1, <1>4 DEF Checked
<1>7. a = 0 => (Whole(v.lines[y]) => Apart(v.lines[y], a))
  BY DEF Whole, Apart
<1> QED
  BY <1>4, <1>5, <1>6, <1>7

---------------------------------------------------------------------------
(* Moving to the next line, inserting and deleting.                        *)

\* What is done to one line of one status is kept if each function keeps it.
LEMMA KeptTwice ==
    ASSUME NEW u, NEW v, NEW w, Kept(u, v), Kept(v, w)
    PROVE  Kept(u, w)
BY DEF Kept, Tidy

\* A window that differs in the cursor and the modes only is as good.
LEMMA SameLines ==
    ASSUME NEW u \in Window, NEW v \in Window, v.lines = u.lines
    PROVE  Kept(u, v)
BY DEF Kept, Tidy, Clean, Pairs

\* The end of a line: the cursor is in column 0 of the next one, or of a blank
\* line that has come up from below.
LEMMA NextLineKept ==
    ASSUME NEW u \in Window, NEW v, v = NextLine(u)
    PROVE  /\ Kept(u, v) /\ v \in Window /\ v.x = 0
           /\ v.wrapnext = u.wrapnext /\ v.insert = u.insert /\ v.wrap = u.wrap
           /\ v.trusted = u.trusted
<1>0. /\ Rows \in Int /\ Rows > 0 /\ Cols \in Int /\ Cols > 0
      /\ Xs = 0..Cols - 1 /\ Ys = 0..Rows - 1 /\ u.y \in Ys
  BY ConstAssumption DEF Xs, Ys, Window
<1>1. 0 \in Columns
  BY XsInColumns
<1>2. CASE u.y = Rows - 1
  <2> DEFINE b == BlankLine(u.trusted)
             f == [y \in Ys |-> IF y < Rows - 1 THEN u.lines[y + 1] ELSE b]
  <2>1. b \in LineRec /\ OneStatus(b) /\ Whole(b)
    BY BlankTypes, LineOf, <1>0
  <2>2. v = [[u EXCEPT !.lines = f, !.scrolled = TRUE] EXCEPT !.x = 0]
    BY <1>2 DEF NextLine, scroll
  <2>3. \A y \in Ys : y < Rows - 1 => y + 1 \in Ys
    BY <1>0
  <2> HIDE DEF b
  <2>4. f \in [Ys -> LineRec]
    BY <2>1, <2>3 DEF Window
  <2>5. \A y \in Ys : f[y] = b \/ \E z \in Ys : f[y] = u.lines[z]
    BY <2>3
  <2> HIDE DEF f
  <2>6. /\ v \in Window /\ v.lines = f /\ v.x = 0
        /\ v.wrapnext = u.wrapnext /\ v.insert = u.insert /\ v.wrap = u.wrap
        /\ v.trusted = u.trusted
    BY <2>2, <2>4, <1>1 DEF Window
  <2>7. Kept(u, v)
    BY <2>1, <2>5, <2>6 DEF Kept, Tidy, Clean, Pairs, Fine
  <2> QED
    BY <2>6, <2>7
<1>3. CASE u.y # Rows - 1
  <2>1. v = [[u EXCEPT !.y = u.y + 1] EXCEPT !.x = 0]
    BY <1>3 DEF NextLine
  <2>2. u.y + 1 \in Ys
    BY <1>0, <1>3
  <2>3. /\ v \in Window /\ v.lines = u.lines /\ v.x = 0
        /\ v.wrapnext = u.wrapnext /\ v.insert = u.insert /\ v.wrap = u.wrap
        /\ v.trusted = u.trusted
    BY <2>1, <2>2, <1>1 DEF Window
  <2> QED
    BY <2>3, SameLines
<1> QED
  BY <1>2, <1>3

\* The cells of line l after n cells have been inserted at c, or deleted there.
Inserted(l, c, n) == [x \in Xs |-> IF x < c THEN l.cells[x]
                                   ELSE IF x - n >= c THEN l.cells[x - n] ELSE Blank]
Deleted(l, c, n) == [x \in Xs |-> IF x < c THEN l.cells[x]
                                  ELSE IF x + n \in Xs THEN l.cells[x + n] ELSE Blank]

\* Cells moved along a line keep their status.
LEMMA Moved ==
    ASSUME NEW l \in LineRec, NEW c \in Xs, NEW n \in Nat,
           NEW f \in {Inserted(l, c, n), Deleted(l, c, n)},
           NEW m, m = [l EXCEPT !.cells = f]
    PROVE  /\ m \in LineRec /\ m.trusted = l.trusted /\ m.cells = f
           /\ OneStatus(l) => OneStatus(m)
<1>0. Cols \in Int /\ Xs = 0..Cols - 1
  BY ConstAssumption DEF Xs
<1>1. l.cells \in [Xs -> CellRec] /\ Blank \in CellRec
  BY BlankTypes DEF LineRec
<1>2. \A x \in Xs : x >= c /\ x - n >= c => x - n \in Xs
  BY <1>0
<1>3. f \in [Xs -> CellRec] /\ \A x \in Xs : f[x] = Blank \/ \E z \in Xs : f[x] = l.cells[z]
  <2>1. CASE f = Inserted(l, c, n)
    <3>1. \A x \in Xs : f[x] = Blank \/ \E z \in Xs : f[x] = l.cells[z]
      BY <2>1, <1>0, <1>2 DEF Inserted
    <3>2. f = [x \in Xs |-> f[x]]
      BY <2>1 DEF Inserted
    <3>3. \A x \in Xs : f[x] \in CellRec
      BY <3>1, <1>1
    <3> QED
      BY <3>1, <3>2, <3>3
  <2>2. CASE f = Deleted(l, c, n)
    <3>1. \A x \in Xs : f[x] = Blank \/ \E z \in Xs : f[x] = l.cells[z]
      BY <2>2, <1>0 DEF Deleted
    <3>2. f = [x \in Xs |-> f[x]]
      BY <2>2 DEF Deleted
    <3>3. \A x \in Xs : f[x] \in CellRec
      BY <3>1, <1>1
    <3> QED
      BY <3>1, <3>2, <3>3
  <2> QED
    BY <2>1, <2>2
<1>4. m \in LineRec /\ m.trusted = l.trusted /\ m.cells = f
  BY <1>3 DEF LineRec
<1>5. OneStatus(l) => OneStatus(m)
  BY <1>3, <1>4 DEF OneStatus
<1> QED
  BY <1>4, <1>5

\* Deleting the cells from c up to c + n keeps the halves of the others together
\* when no pair lies across either end.
LEMMA DeletedWhole ==
    ASSUME NEW l, Whole(l), NEW c \in Xs, NEW n \in Nat, Apart(l, c), Apart(l, c + n),
           NEW m, m.cells = Deleted(l, c, n)
    PROVE  Whole(m)
<1> SUFFICES ASSUME NEW x \in Xs
             PROVE  /\ m.cells[x].ch = "UCSWIDE" => x > 0 /\ m.cells[x - 1].ch = "w"
                    /\ m.cells[x].ch = "w" => x + 1 \in Xs /\ m.cells[x + 1].ch = "UCSWIDE"
  BY DEF Whole
<1>0. /\ Cols \in Int /\ Xs = 0..Cols - 1 /\ c \in Int /\ x \in Int
      /\ x > 0 => x - 1 \in Xs
  BY ConstAssumption DEF Xs
<1>1. \A z \in Xs : m.cells[z] = IF z < c THEN l.cells[z]
                                 ELSE IF z + n \in Xs THEN l.cells[z + n] ELSE Blank
  BY DEF Deleted
<1>2. Blank.ch = "blank"
  BY DEF Blank, Cell
<1>3. CASE m.cells[x].ch = "UCSWIDE"
  <2>1. CASE x < c
    <3>1. l.cells[x].ch = "UCSWIDE"
      BY <1>1, <1>3, <2>1
    <3>2. x > 0 /\ l.cells[x - 1].ch = "w"
      BY <3>1 DEF Whole
    <3> QED
      BY <3>2, <2>1, <1>0, <1>1, <1>3
  <2>2. CASE x >= c
    <3>1. x + n \in Xs /\ l.cells[x + n].ch = "UCSWIDE"
      BY <1>0, <1>1, <1>2, <1>3, <2>2
    <3>2. x # c
      BY <3>1 DEF Apart
    <3>3. l.cells[(x + n) - 1].ch = "w"
      BY <3>1 DEF Whole
    <3>4. /\ x > 0 /\ x - 1 \in Xs /\ ~(x - 1 < c) /\ (x - 1) + n = (x + n) - 1
          /\ (x - 1) + n \in Xs
      BY <3>1, <3>2, <2>2, <1>0
    <3>5. m.cells[x - 1].ch = "w"
      BY <3>3, <3>4, <1>1
    <3> QED
      BY <3>4, <3>5, <1>3
  <2> QED
    BY <2>1, <2>2, <1>0
<1>4. CASE m.cells[x].ch = "w"
  <2>1. CASE x < c
    <3>1. l.cells[x].ch = "w"
      BY <1>1, <1>4, <2>1
    <3>2. x + 1 \in Xs /\ l.cells[x + 1].ch = "UCSWIDE"
      BY <3>1 DEF Whole
    <3>3. x + 1 < c
      BY <3>2, <2>1, <1>0 DEF Apart
    <3> QED
      BY <3>2, <3>3, <1>1, <1>4
  <2>2. CASE x >= c
    <3>1. x + n \in Xs /\ l.cells[x + n].ch = "w"
      BY <1>0, <1>1, <1>2, <1>4, <2>2
    <3>2. (x + n) + 1 \in Xs /\ l.cells[(x + n) + 1].ch = "UCSWIDE"
      BY <3>1 DEF Whole
    <3>3. x + 1 \in Xs /\ ~(x + 1 < c) /\ (x + 1) + n = (x + n) + 1
      BY <3>2, <2>2, <1>0
    <3>4. m.cells[x + 1].ch = "UCSWIDE"
      BY <3>2, <3>3, <1>1
    <3> QED
      BY <3>3, <3>4, <1>4
  <2> QED
    BY <2>1, <2>2, <1>0
<1> QED
  BY <1>3, <1>4

\* insch(): cells are inserted or deleted in the cursor's line, which is then of
\* the status of what is being printed; a deletion parts no pair.
LEMMA InschTidy ==
    ASSUME NEW u \in Window, u.x >= 0, NEW dir \in {-1, 1}, NEW k \in Nat \ {0},
           NEW r, r = insch(u, dir, k)
    PROVE  /\ Tidy(u, r) /\ SameRest(u, r) /\ Marked(r)
           /\ dir = -1 => Kept(u, r)
<1> DEFINE c == u.x
           y == u.y
           n == IF k > Cols - c THEN Cols - c ELSE k
           v == check_boundary(u, c, y)
           p == IF dir < 0 THEN check_boundary(v, c + n, y) ELSE v
           w == check_trust_status(p, y)
           l == w.lines[y]
           f == IF dir < 0 THEN Deleted(l, c, n) ELSE Inserted(l, c, n)
           m == [l EXCEPT !.cells = f]
<1>0. /\ c \in Xs /\ y \in Ys /\ c \in Int
      /\ n \in Nat /\ c + n \in Int /\ n > 0 /\ c >= 0 /\ c + n > 0 /\ c + n <= Cols
  <2>1. c \in Xs /\ y \in Ys /\ c \in Int /\ c >= 0 /\ c < Cols /\ Cols \in Int
    BY WindowOf
  <2> HIDE DEF c
  <2> QED
    BY <2>1
<1>1. r = [w EXCEPT !.lines[y].cells = f]
  <2>1. CASE dir < 0
    BY <2>1 DEF insch, Deleted
  <2>2. CASE ~(dir < 0)
    BY <2>2 DEF insch, Inserted
  <2> QED
    BY <2>1, <2>2
<1> HIDE DEF n
<1>2. Checked(u, v, y) /\ v \in Window
  <2>1. Checked(u, v, y)
    BY <1>0, BoundaryChecked
  <2> QED
    BY <2>1 DEF Checked, Kept, Tidy
<1>3. dir < 0 => p = check_boundary(v, c + n, y)
  OBVIOUS
<1>4. ~(dir < 0) => p = v
  OBVIOUS
<1> HIDE DEF p
<1>a. dir < 0 => Checked(v, p, y) /\ Apart(p.lines[y], c + n)
  BY <1>0, <1>2, <1>3, BoundaryChecked
<1>b. Checked(u, p, y) /\ p \in Window
  BY <1>2, <1>4, <1>a, CheckedTwice DEF Checked, Kept, Tidy
<1>c. c > 0 => Apart(v.lines[y], c)
  BY <1>0, BoundaryChecked
<1> HIDE DEF v
<1>5. Checked(p, w, y) /\ l.trusted = w.trusted
  BY <1>0, <1>b, TrustChecked
<1>6. Checked(u, w, y) /\ w \in Window
  BY <1>b, <1>5, CheckedTwice DEF Checked, Kept, Tidy
<1>7. dir < 0 => (Whole(l) => (Apart(l, c) /\ Apart(l, c + n)))
  <2>4. dir < 0 /\ c > 0 => Apart(l, c)
    BY <1>0, <1>5, <1>a, <1>c DEF Checked
  <2>5. dir < 0 => Apart(l, c + n)
    BY <1>0, <1>5, <1>a DEF Checked
  <2>6. c = 0 => (Whole(l) => Apart(l, c))
    BY DEF Whole, Apart
  <2> QED
    BY <1>0, <2>4, <2>5, <2>6
<1> HIDE DEF w
<1>8. l \in LineRec
  BY <1>0, <1>6, LineOf
<1>9. f \in {Inserted(l, c, n), Deleted(l, c, n)}
  OBVIOUS
<1>10. m \in LineRec /\ m.trusted = l.trusted /\ m.cells = f /\ (OneStatus(l) => OneStatus(m))
  BY <1>0, <1>8, <1>9, Moved
<1>11. dir < 0 => (Whole(l) => Whole(m))
  BY <1>0, <1>7, <1>10, DeletedWhole
<1>12. r = [w EXCEPT !.lines[y] = m]
  BY <1>1
<1> HIDE DEF m, f, l
<1>13. LineSet(w, r, y, m)
  BY <1>0, <1>6, <1>10, <1>12, SetLine
<1>14. Tidy(u, r) /\ SameRest(u, r) /\ Marked(r)
  BY <1>5, <1>6, <1>10, <1>13 DEF LineSet, Checked, Kept, Tidy, SameRest, Marked, l
<1>15. dir = -1 => Kept(u, r)
  <2>1. dir < 0 => (Fine(l) => Fine(m))
    BY <1>10, <1>11 DEF Fine
  <2>2. dir = -1 => dir < 0
    OBVIOUS
  <2> QED
    BY <1>6, <1>13, <1>14, <2>1, <2>2 DEF LineSet, Checked, Kept, l
<1> QED
  BY <1>14, <1>15

---------------------------------------------------------------------------
(* Printing.                                                               *)

\* The wrap that was put off, the shift of insert mode and the check of the
\* line's status: without insert mode no pair is parted.
LEMMA Prepared ==
    ASSUME NEW u \in Window, Lands(u), NEW width \in Nat \ {0}, NEW r, r = Prepare(u, width)
    PROVE  /\ Tidy(u, r) /\ Marked(r) /\ r.x >= 0
           /\ ~u.insert => Kept(u, r)
<1> DEFINE b == [u EXCEPT !.lines[u.y].wrapped = TRUE]
           e == NextLine(b)
           v == IF u.wrapnext /\ u.wrap THEN [e EXCEPT !.wrapnext = FALSE] ELSE u
           w == IF v.insert THEN insch(v, 1, width) ELSE v
<1>0. r = check_trust_status(w, w.y)
  BY DEF Prepare
<1>1. Kept(u, v) /\ v \in Window /\ v.insert = u.insert /\ v.x >= 0
  <2>1. CASE u.wrapnext /\ u.wrap
    <3> DEFINE l == u.lines[u.y]
               m == [l EXCEPT !.wrapped = TRUE]
    <3>1. l \in LineRec /\ u.y \in Ys
      BY LineOf, WindowOf
    <3>2. m \in LineRec /\ m.trusted = l.trusted /\ m.cells = l.cells
      BY <3>1 DEF LineRec
    <3>3. b = [u EXCEPT !.lines[u.y] = m]
      OBVIOUS
    <3> HIDE DEF m, b
    <3>4. LineSet(u, b, u.y, m)
      BY <3>1, <3>2, <3>3, SetLine
    <3>5. Kept(u, b) /\ b \in Window /\ b.insert = u.insert
      BY <3>2, <3>4 DEF LineSet, Kept, Fine, Whole, OneStatus, SameRest
    <3>6. Kept(b, e) /\ e \in Window /\ e.insert = b.insert /\ e.x = 0
      BY <3>5, NextLineKept
    <3> HIDE DEF e
    <3>7. v = [e EXCEPT !.wrapnext = FALSE]
      BY <2>1
    <3>8. v \in Window /\ v.lines = e.lines /\ v.insert = e.insert /\ v.x = e.x
      BY <3>6, <3>7 DEF Window
    <3>9. Kept(e, v)
      BY <3>6, <3>8, SameLines
    <3> QED
      BY <3>5, <3>6, <3>8, <3>9, KeptTwice
  <2>2. CASE ~(u.wrapnext /\ u.wrap)
    <3>1. v = u
      BY <2>2
    <3> QED
      BY <2>2, <3>1, SameLines DEF Lands
  <2> QED
    BY <2>1, <2>2
<1> HIDE DEF v
<1>2. Tidy(v, w) /\ w \in Window /\ w.x = v.x /\ (~u.insert => Kept(v, w))
  <2>1. CASE v.insert
    <3>1. w = insch(v, 1, width)
      BY <2>1
    <3>2. Tidy(v, w) /\ SameRest(v, w)
      BY <1>1, <3>1, InschTidy
    <3> QED
      BY <1>1, <2>1, <3>2 DEF Tidy, SameRest
  <2>2. CASE ~v.insert
    BY <1>1, <2>2, SameLines DEF Kept, Tidy
  <2> QED
    BY <2>1, <2>2
<1> HIDE DEF w
<1>3. Checked(w, r, w.y) /\ r.lines[w.y].trusted = r.trusted
  BY <1>0, <1>2, TrustChecked, WindowOf
<1> QED
  BY <1>1, <1>2, <1>3 DEF Checked, Kept, Tidy, SameRest, Marked

\* The cursor moves on within the usable part of the line, or left of the line.
LEMMA Advanced ==
    ASSUME NEW u \in Window, u.x >= 0, NEW cols \in Int, cols <= Cols,
           cols < 1 => Cols <= TRUST_SIGIL_WIDTH, NEW r, r = Advance(u, cols)
    PROVE  Kept(u, r)
<1>0. Cols \in Int /\ u.x \in Int /\ u.x < Cols
  BY WindowOf
<1>1. CASE u.x + 1 >= cols
  <2>1. r = [u EXCEPT !.x = cols - 1, !.wrapnext = TRUE] /\ cols - 1 \in Columns
    BY <1>0, <1>1 DEF Advance, Columns
  <2>2. r \in Window /\ r.lines = u.lines
    BY <2>1 DEF Window
  <2> QED
    BY <2>2, SameLines
<1>2. CASE ~(u.x + 1 >= cols)
  <2>1. r = [u EXCEPT !.x = u.x + 1] /\ u.x + 1 \in Columns
    BY <1>0, <1>2 DEF Advance, Columns
  <2>2. r \in Window /\ r.lines = u.lines
    BY <2>1 DEF Window
  <2> QED
    BY <2>2, SameLines
<1> QED
  BY <1>1, <1>2

\* The usable width of a line, which leaves a column if the sigil does.
LEMMA Usable ==
    ASSUME NEW u \in Window
    PROVE  /\ linecols(u) \in Int /\ linecols(u) <= Cols
           /\ linecols(u) < 1 => Cols <= TRUST_SIGIL_WIDTH
BY ConstAssumption DEF linecols

\* A single-width character.
LEMMA NarrowKept ==
    ASSUME NEW u \in Window, Marked(u), u.x >= 0
    PROVE  Kept(u, Narrow(u))
<1> DEFINE v == check_boundary(check_boundary(u, u.x, u.y), u.x + 1, u.y)
           l == v.lines[u.y]
           m == [l EXCEPT !.cells[u.x] = Cell("n", v.trusted)]
           w == Put(v, v.x, v.y, Cell("n", v.trusted))
<1>0. /\ Cols \in Int /\ Xs = 0..Cols - 1 /\ u.x \in Xs /\ u.y \in Ys /\ u.x \in Int
      /\ u.x >= 0 /\ u.x + 1 \in Int /\ u.x + 1 > 0
  BY WindowOf
<1>1. /\ Checked(u, v, u.y) /\ v \in Window
      /\ Whole(l) => Apart(l, u.x)
      /\ Apart(l, u.x + 1)
  BY <1>0, BothChecked
<1> HIDE DEF v
<1>2. v.x = u.x /\ v.y = u.y /\ l.trusted = v.trusted
  BY <1>1 DEF Checked, SameRest, Marked
<1>3. l \in LineRec /\ v.trusted \in BOOLEAN
  BY <1>0, <1>1, LineOf
<1>4. /\ m \in LineRec /\ m.trusted = l.trusted
      /\ OneStatus(l) => OneStatus(m)
      /\ Whole(l) => Whole(m)
  BY <1>0, <1>1, <1>2, <1>3, NarrowCell
<1>5. w = [v EXCEPT !.lines[u.y] = m]
  BY <1>2 DEF Put
<1> HIDE DEF l, m, w
<1>6. LineSet(v, w, u.y, m)
  BY <1>0, <1>1, <1>4, <1>5, SetLine
<1>7. Kept(v, w) /\ w \in Window /\ w.x >= 0
  BY <1>0, <1>2, <1>4, <1>6 DEF LineSet, Kept, Fine, SameRest, l
<1>8. Narrow(u) = Advance(w, linecols(u))
  BY DEF Narrow, w, v
<1>9. Kept(w, Narrow(u))
  BY <1>7, <1>8, Usable, Advanced
<1> QED
  BY <1>1, <1>7, <1>9, KeptTwice DEF Checked

\* No room for both halves: the last column is blanked, which parts no pair, and
\* the next line, of the status of what is being printed, has room at its start.
LEMMA WideWrapKept ==
    ASSUME NEW u \in Window, Marked(u), u.x >= 0, Cols >= 2,
           ~u.lines[u.y].trusted => u.x = Cols - 1,
           Whole(u.lines[u.y]) => Apart(u.lines[u.y], u.x),
           NEW r, r = WideWrap(u)
    PROVE  /\ Kept(u, r) /\ r \in Window /\ Marked(r) /\ r.x = 0
           /\ Apart(r.lines[r.y], 2)
<1> DEFINE y == u.y
           l == u.lines[y]
           e == Erase(u, y, {u.x})
           m == e.lines[y]
           k == [m EXCEPT !.wrapped = TRUE, !.wrapped2 = TRUE]
           g == [e EXCEPT !.lines[y] = k]
           v == NextLine(g)
<1>0. /\ u.x \in Xs /\ y \in Ys /\ u.x \in Int /\ Cols \in Int /\ Xs = 0..Cols - 1
  BY WindowOf
<1>1. LineSet(u, e, y, m) /\ ErasedFrom(l, m, {u.x})
  BY <1>0, EraseSets
<1>2. e \in Window /\ m \in LineRec /\ m.trusted = l.trusted
      /\ (OneStatus(l) => OneStatus(m))
      /\ (Whole(l) /\ (\A x \in Xs : l.cells[x].ch = "w" => (x \in {u.x} <=> x + 1 \in {u.x}))
               => Whole(m))
  BY <1>1 DEF LineSet, ErasedFrom
<1>3. Fine(l) => Fine(m)
  <2>1. CASE l.trusted
    BY <1>2, <2>1 DEF Fine
  <2>2. CASE ~l.trusted
    <3>1. SUFFICES ASSUME Whole(l) PROVE Whole(m)
      BY <2>2 DEF Fine
    <3>2. Apart(l, u.x) /\ Apart(l, u.x + 1)
      BY <1>0, <2>2, <3>1 DEF Apart
    <3>3. \A x \in Xs : l.cells[x].ch = "w" => (x \in u.x..u.x <=> x + 1 \in u.x..u.x)
      BY <1>0, <3>1, <3>2, RangeClosed
    <3>4. u.x..u.x = {u.x}
      BY <1>0
    <3> QED
      BY <1>2, <3>1, <3>3, <3>4
  <2> QED
    BY <2>1, <2>2
<1>4. Kept(u, e)
  BY <1>1, <1>2, <1>3 DEF LineSet, Kept
<1>5. WideWrap(u) = check_boundary(check_boundary(v, v.x, v.y), v.x + 2, v.y)
  <2>1. [e EXCEPT !.lines[y].wrapped = TRUE, !.lines[y].wrapped2 = TRUE] = g
    BY <1>0, <1>2 DEF Window
  <2> QED
    BY <2>1 DEF WideWrap
<1> HIDE DEF e, m
<1>6. k \in LineRec /\ k.trusted = m.trusted /\ k.cells = m.cells
  BY <1>2 DEF LineRec
<1> HIDE DEF k
<1>7. LineSet(e, g, y, k)
  BY <1>0, <1>2, <1>6, SetLine
<1>8. Kept(e, g) /\ g \in Window
  BY <1>6, <1>7 DEF LineSet, Kept, OneStatus, Fine, Whole, m
<1> HIDE DEF g
<1>9. Kept(g, v) /\ v \in Window /\ v.x = 0
  BY <1>8, NextLineKept
<1> HIDE DEF v
<1>10. r = check_boundary(check_boundary(v, 0, v.y), 2, v.y)
  BY <1>5, <1>9
<1>11. /\ Checked(v, r, v.y) /\ r \in Window
       /\ r.lines[v.y].trusted = r.trusted
       /\ Apart(r.lines[v.y], 2)
  <2>1. v.y \in Ys /\ 0 \in Int /\ 0 >= 0 /\ 2 \in Int /\ 2 > 0
    BY <1>9, WindowOf
  <2>2. /\ Checked(v, r, v.y) /\ r \in Window
        /\ 2 <= Cols => r.lines[v.y].trusted = r.trusted
        /\ Whole(r.lines[v.y]) => Apart(r.lines[v.y], 0)
        /\ Apart(r.lines[v.y], 2)
    BY <1>9, <1>10, <2>1, BothChecked
  <2>3. 2 <= Cols
    BY <1>0
  <2> QED
    BY <2>2, <2>3
<1>12. r.y = v.y /\ r.x = 0 /\ Kept(v, r)
  BY <1>9, <1>11 DEF Checked, SameRest
<1> QED
  BY <1>4, <1>8, <1>9, <1>11, <1>12, KeptTwice DEF Marked

\* A double-width character, on a line with two usable columns.
LEMMA WideKept ==
    ASSUME NEW u \in Window, Marked(u), u.x >= 0, linecols(u) >= 2
    PROVE  Kept(u, Wide(u))
<1> DEFINE cols == linecols(u)
           v == check_boundary(check_boundary(u, u.x, u.y), u.x + 2, u.y)
           w == IF v.x >= cols - 1 THEN WideWrap(v) ELSE v
           x == w.x
           l == w.lines[w.y]
           m == [l EXCEPT !.cells = [[@ EXCEPT ![x] = Cell("w", w.trusted)]
                                        EXCEPT ![x + 1] = Cell("UCSWIDE", w.trusted)]]
           z == Put(Put(w, w.x, w.y, Cell("w", w.trusted)), w.x + 1, w.y, Cell("UCSWIDE", w.trusted))
           q == [z EXCEPT !.x = @ + 1]
<1>0. /\ cols \in Int /\ cols >= 2 /\ cols <= Cols /\ Cols \in Int /\ Cols >= 2
      /\ Xs = 0..Cols - 1
      /\ u.x \in Xs /\ u.y \in Ys /\ u.x \in Int /\ u.x >= 0 /\ u.x + 2 \in Int /\ u.x + 2 > 0
  BY Usable, WindowOf
<1>1. /\ Checked(u, v, u.y) /\ v \in Window
      /\ Whole(v.lines[u.y]) => Apart(v.lines[u.y], u.x)
      /\ Apart(v.lines[u.y], u.x + 2)
  <2>1. /\ Checked(u, v, u.y) /\ v \in Window
        /\ u.x + 2 <= Cols => v.lines[u.y].trusted = v.trusted
        /\ Whole(v.lines[u.y]) => Apart(v.lines[u.y], u.x)
        /\ Apart(v.lines[u.y], u.x + 2)
    BY <1>0, BothChecked
  <2> QED
    BY <2>1
<1>2. v.x = u.x /\ v.y = u.y /\ v.trusted = u.trusted /\ Marked(v) /\ Kept(u, v)
  BY <1>1 DEF Checked, SameRest, Marked
<1>3. ~v.lines[v.y].trusted => cols = Cols
  BY <1>2 DEF Marked, linecols
<1> HIDE DEF v, cols
<1>4. /\ Kept(v, w) /\ w \in Window /\ Marked(w) /\ x + 1 < Cols /\ x + 1 <= cols - 1 /\ x >= 0
      /\ Whole(l) => Apart(l, x)
      /\ Apart(l, x + 2)
  <2>1. CASE v.x >= cols - 1
    <3>1. w = WideWrap(v)
      BY <2>1
    <3>2. ~v.lines[v.y].trusted => v.x = Cols - 1
      BY <1>0, <1>2, <1>3, <2>1
    <3>3. Whole(v.lines[v.y]) => Apart(v.lines[v.y], v.x)
      BY <1>1, <1>2
    <3>4. Kept(v, w) /\ w \in Window /\ Marked(w) /\ x = 0 /\ Apart(l, 2)
      BY <1>0, <1>1, <1>2, <3>1, <3>2, <3>3, WideWrapKept
    <3>5. Whole(l) => Apart(l, 0)
      BY DEF Whole, Apart
    <3>6. cols >= 2
      BY DEF cols
    <3> QED
      BY <1>0, <3>4, <3>5, <3>6
  <2>2. CASE ~(v.x >= cols - 1)
    <3>1. w = v
      BY <2>2
    <3>2. Kept(v, v)
      BY <1>1, SameLines
    <3>3. x + 1 < Cols /\ x + 1 <= cols - 1 /\ x >= 0
      BY <1>0, <1>2, <2>2, <3>1
    <3> QED
      BY <1>1, <1>2, <3>1, <3>2, <3>3
  <2> QED
    BY <2>1, <2>2
<1> HIDE DEF w
<1>5. /\ x \in Xs /\ x + 1 \in Xs /\ w.y \in Ys /\ l \in LineRec /\ w.trusted \in BOOLEAN
      /\ x \in Int
  <2>1. w.x \in Xs /\ w.y \in Ys /\ w.trusted \in BOOLEAN /\ w.x \in Int /\ w.x >= 0
    BY <1>4, WindowOf
  <2>2. w.x + 1 \in Xs
    BY <2>1, <1>4, <1>0
  <2> QED
    BY <2>1, <2>2, <1>4, LineOf
<1>6. l.trusted = w.trusted
  BY <1>4 DEF Marked
<1>7. /\ m \in LineRec /\ m.trusted = l.trusted
      /\ OneStatus(l) => OneStatus(m)
      /\ Whole(l) => Whole(m)
  BY <1>4, <1>5, <1>6, WideCells
<1>8. z = [w EXCEPT !.lines[w.y] = m]
  <2>1. w.lines \in [Ys -> LineRec]
    BY <1>4 DEF Window
  <2> QED
    BY ZenonT(60), <1>4, <1>5, <2>1 DEF Put, Window, LineRec
<1> HIDE DEF m
<1>9. LineSet(w, z, w.y, m)
  BY <1>4, <1>5, <1>7, <1>8, SetLine
<1>10. Kept(w, z) /\ z \in Window /\ z.x = w.x
  BY <1>7, <1>9 DEF LineSet, Kept, Fine, SameRest
<1> HIDE DEF z, l
<1>11. q \in Window /\ q.lines = z.lines /\ q.x >= 0
  <2>1. q = [z EXCEPT !.x = x + 1] /\ x + 1 \in Columns /\ x + 1 >= 0
    BY <1>0, <1>5, <1>10, XsInColumns
  <2> QED
    BY <1>10, <2>1 DEF Window
<1>12. Kept(z, q)
  BY <1>10, <1>11, SameLines
<1>13. Wide(u) = Advance(q, cols)
  BY DEF Wide, q, z, w, v, cols
<1> HIDE DEF q
<1>14. Kept(q, Wide(u))
  BY <1>0, <1>11, <1>13, Advanced
<1> QED
  BY <1>2, <1>4, <1>10, <1>12, <1>14, KeptTwice

\* The cell a combining character joins.
LEMMA CombinedCell ==
    ASSUME NEW c \in CellRec, NEW by \in BOOLEAN
    PROVE  /\ [[c EXCEPT !.cc = @ + 1] EXCEPT !.by = by] \in CellRec
           /\ [[c EXCEPT !.cc = @ + 1] EXCEPT !.by = by].ch = c.ch
           /\ [[c EXCEPT !.cc = @ + 1] EXCEPT !.by = by].by = by
<1>1. c.cc \in Nat /\ c.cc + 1 \in Nat
  BY DEF CellRec
<1> DEFINE n == c.cc + 1
<1> HIDE DEF n
<1>2. [[c EXCEPT !.cc = n] EXCEPT !.by = by] \in CellRec
  BY <1>1 DEF CellRec, n
<1>3. /\ [[c EXCEPT !.cc = n] EXCEPT !.by = by].ch = c.ch
      /\ [[c EXCEPT !.cc = n] EXCEPT !.by = by].by = by
  BY DEF CellRec
<1> QED
  BY <1>2, <1>3 DEF n

\* A combining character changes neither the kind of a cell nor, on a line of
\* the status of what is being printed, its status.
LEMMA CombineKept ==
    ASSUME NEW u \in Window
    PROVE  Kept(u, Combine(u))
<1> DEFINE v == check_trust_status(u, u.y)
           x == IF v.wrapnext THEN v.x ELSE v.x - 1
           b == IF v.lines[v.y].cells[x].ch = "UCSWIDE" THEN x - 1 ELSE x
           l == v.lines[v.y]
           f == [l.cells EXCEPT ![b].cc = @ + 1, ![b].by = v.trusted]
           m == [l EXCEPT !.cells = f]
           w == [v EXCEPT !.lines[v.y].cells[b].cc = @ + 1,
                          !.lines[v.y].cells[b].by = v.trusted]
<1>0. u.y \in Ys
  BY WindowOf
<1>1. Checked(u, v, u.y) /\ v.lines[u.y].trusted = v.trusted
  BY <1>0, TrustChecked
<1>2. v \in Window /\ v.y = u.y /\ Kept(u, v) /\ l.trusted = v.trusted
  BY <1>1 DEF Checked, Kept, Tidy, SameRest
<1>3. Combine(u) = IF v.x <= 0 THEN v ELSE w
  BY DEF Combine
<1> HIDE DEF v, b
<1>4. l \in LineRec /\ l.cells \in [Xs -> CellRec] /\ v.trusted \in BOOLEAN
  BY <1>0, <1>2, LineOf
<1>5. /\ f \in [Xs -> CellRec]
      /\ \A z \in Xs : f[z].ch = l.cells[z].ch
      /\ \A z \in Xs : f[z] = l.cells[z] \/ f[z].by = v.trusted
  <2>1. CASE b \in Xs
    <3>1. l.cells[b] \in CellRec
      BY <1>4, <2>1
    <3> DEFINE c == [[l.cells[b] EXCEPT !.cc = @ + 1] EXCEPT !.by = v.trusted]
    <3>2. c \in CellRec /\ c.ch = l.cells[b].ch /\ c.by = v.trusted
      BY <3>1, <1>4, CombinedCell
    <3>3. f = [l.cells EXCEPT ![b] = c]
      BY <1>4, <2>1
    <3> HIDE DEF c, f
    <3> QED
      BY <1>4, <2>1, <3>2, <3>3
  <2>2. CASE b \notin Xs
    <3>1. f = l.cells
      BY <1>4, <2>2
    <3> QED
      BY <1>4, <3>1
  <2> QED
    BY <2>1, <2>2
<1>6. w = [v EXCEPT !.lines[v.y] = m]
  <2> DEFINE f1 == [l.cells EXCEPT ![b].cc = @ + 1]
             m1 == [l EXCEPT !.cells = f1]
             w1 == [v EXCEPT !.lines[v.y] = m1]
  <2>1. w = [w1 EXCEPT !.lines[v.y].cells[b].by = v.trusted]
    OBVIOUS
  <2>2. f = [f1 EXCEPT ![b].by = v.trusted]
    OBVIOUS
  <2> HIDE DEF f1
  <2>3. m1.cells = f1 /\ [m1 EXCEPT !.cells = f] = m
    BY ZenonT(60), <1>4 DEF LineRec
  <2> HIDE DEF f, m1
  <2>4. w1.lines[v.y] = m1 /\ [w1 EXCEPT !.lines[v.y] = m] = [v EXCEPT !.lines[v.y] = m]
    BY <1>0, <1>2 DEF Window
  <2> HIDE DEF w1, m, w
  <2>5. w = [w1 EXCEPT !.lines[v.y] = [w1.lines[v.y] EXCEPT !.cells =
               [w1.lines[v.y].cells EXCEPT ![b].by = v.trusted]]]
    BY <2>1
  <2> QED
    BY <2>2, <2>3, <2>4, <2>5
<1> HIDE DEF f
<1>7. m \in LineRec /\ m.trusted = l.trusted /\ m.cells = f
  BY <1>4, <1>5 DEF LineRec
<1>8. (OneStatus(l) => OneStatus(m)) /\ (Fine(l) => Fine(m))
  <2>1. OneStatus(l) => OneStatus(m)
    BY <1>2, <1>5, <1>7 DEF OneStatus
  <2>2. Whole(l) => Whole(m)
    <3> SUFFICES ASSUME Whole(l), NEW z \in Xs
                 PROVE  /\ m.cells[z].ch = "UCSWIDE" => z > 0 /\ m.cells[z - 1].ch = "w"
                        /\ m.cells[z].ch = "w" => z + 1 \in Xs /\ m.cells[z + 1].ch = "UCSWIDE"
      BY DEF Whole
    <3>1. z > 0 => z - 1 \in Xs
      BY ConstAssumption DEF Xs
    <3> QED
      BY <3>1, <1>5, <1>7 DEF Whole
  <2> QED
    BY <2>1, <2>2, <1>7 DEF Fine
<1> HIDE DEF m, l, w
<1>9. LineSet(v, w, v.y, m)
  BY <1>0, <1>2, <1>6, <1>7, SetLine
<1>10. Kept(v, w)
  BY <1>8, <1>9 DEF LineSet, Kept, l
<1> QED
  BY <1>2, <1>3, <1>10, KeptTwice

---------------------------------------------------------------------------
(* Erasing.                                                                *)

\* Cells of one line erased: the line's status does not change.
LEMMA EraseTidy ==
    ASSUME NEW u \in Window, NEW y \in Ys, NEW S
    PROVE  Tidy(u, Erase(u, y, S)) /\ Erase(u, y, S) \in Window
BY EraseSets DEF LineSet, ErasedFrom, Tidy

\* The cells from a to b erased, with no pair across either end.
LEMMA EraseKept ==
    ASSUME NEW u \in Window, NEW y \in Ys, NEW a \in Int, NEW b \in Int,
           Whole(u.lines[y]) => Apart(u.lines[y], a) /\ Apart(u.lines[y], b + 1)
    PROVE  Kept(u, Erase(u, y, a..b)) /\ Erase(u, y, a..b) \in Window
<1> DEFINE S == a..b
           v == Erase(u, y, S)
           l == u.lines[y]
           m == v.lines[y]
<1>1. LineSet(u, v, y, m) /\ ErasedFrom(l, m, S)
  BY EraseSets
<1>2. ASSUME Whole(l) PROVE Whole(m)
  <2>1. \A x \in Xs : l.cells[x].ch = "w" => (x \in S <=> x + 1 \in S)
    BY <1>2, RangeClosed
  <2> QED
    BY <1>1, <1>2, <2>1 DEF ErasedFrom
<1> HIDE DEF v
<1>3. Kept(u, v)
  BY <1>1, <1>2 DEF LineSet, ErasedFrom, Kept, Fine
<1> QED
  BY <1>1, <1>3 DEF LineSet, v

\* Destructive backspace.
LEMMA DELKept ==
    ASSUME t \in Window, DEL
    PROVE  Kept(t, t')
<1> DEFINE u == [t EXCEPT !.x = IF t.x > 0 /\ ~t.wrapnext THEN @ - 1 ELSE @, !.wrapnext = FALSE]
           v == check_boundary(check_boundary(u, u.x, u.y), u.x + 1, u.y)
<1>1. t' = Erase(v, v.y, {v.x}) /\ t.x >= 0
  BY DEF DEL, Do
<1>2. u \in Window /\ u.lines = t.lines /\ u.x >= 0
  <2> DEFINE x == IF t.x > 0 /\ ~t.wrapnext THEN t.x - 1 ELSE t.x
  <2>1. x \in Columns /\ x >= 0
    BY <1>1, WindowOf DEF Columns
  <2>2. u = [t EXCEPT !.x = x, !.wrapnext = FALSE]
    OBVIOUS
  <2> HIDE DEF x, u
  <2> QED
    BY <2>1, <2>2 DEF Window
<1>3. Kept(t, u)
  BY <1>2, SameLines
<1> HIDE DEF u
<1>4. /\ u.y \in Ys /\ u.x \in Int /\ u.x >= 0 /\ u.x + 1 \in Int /\ u.x + 1 > 0
  BY <1>2, WindowOf
<1>5. /\ Checked(u, v, u.y) /\ v \in Window
      /\ u.x + 1 <= Cols => v.lines[u.y].trusted = v.trusted
      /\ Whole(v.lines[u.y]) => Apart(v.lines[u.y], u.x)
      /\ Apart(v.lines[u.y], u.x + 1)
  BY <1>2, <1>4, BothChecked
<1> HIDE DEF v
<1>6. v.x = u.x /\ v.y = u.y /\ Kept(u, v)
  BY <1>5 DEF Checked, SameRest
<1>7. {v.x} = u.x..u.x
  BY <1>4, <1>6
<1>8. Kept(v, t')
  BY <1>1, <1>4, <1>5, <1>6, <1>7, EraseKept
<1> QED
  BY <1>3, <1>6, <1>8, KeptTwice

\* Erase characters.
LEMMA ECHKept ==
    ASSUME t \in Window, NEW k \in 1..2, ECH(k)
    PROVE  Kept(t, t')
<1> DEFINE n == IF k > Cols - t.x THEN Cols - t.x ELSE k
           u == check_trust_status(t, t.y)
           v == check_boundary(check_boundary(u, t.x, t.y), t.x + n, t.y)
<1>1. t' = Erase(v, t.y, t.x..t.x + n - 1) /\ t.x >= 0
  BY DEF ECH, Do
<1>2. /\ t.y \in Ys /\ t.x \in Int /\ t.x >= 0 /\ t.x + n \in Int /\ t.x + n > 0
      /\ t.x + n - 1 \in Int /\ t.x + n - 1 + 1 = t.x + n
  <2>1. t.y \in Ys /\ t.x \in Int /\ t.x >= 0 /\ t.x < Cols /\ Cols \in Int
    BY <1>1, WindowOf
  <2> QED
    BY <2>1
<1> HIDE DEF n
<1>3. Checked(t, u, t.y)
  BY <1>2, TrustChecked
<1>4. u \in Window /\ Kept(t, u)
  BY <1>3 DEF Checked, Kept, Tidy
<1> HIDE DEF u
<1>5. /\ Checked(u, v, t.y) /\ v \in Window
      /\ t.x + n <= Cols => v.lines[t.y].trusted = v.trusted
      /\ Whole(v.lines[t.y]) => Apart(v.lines[t.y], t.x)
      /\ Apart(v.lines[t.y], t.x + n)
  BY <1>2, <1>4, BothChecked
<1> HIDE DEF v
<1>6. Kept(v, t')
  BY <1>1, <1>2, <1>5, EraseKept
<1> QED
  BY <1>4, <1>5, <1>6, KeptTwice DEF Checked

\* The checks before the cursor's line is erased to one of its ends.
LEMMA EraseChecked ==
    ASSUME t \in Window,
           NEW u, u = check_trust_status(check_boundary(t, t.x, t.y), t.y)
    PROVE  Kept(t, u) /\ u \in Window /\ (Whole(u.lines[t.y]) => Apart(u.lines[t.y], t.x))
<1> DEFINE v == check_boundary(t, t.x, t.y)
<1>1. t.y \in Ys /\ t.x \in Int /\ \A x \in Xs : x >= 0
  BY WindowOf
<1>2. Checked(t, v, t.y) /\ (t.x > 0 => Apart(v.lines[t.y], t.x))
  BY <1>1, BoundaryChecked
<1>3. v \in Window
  BY <1>2 DEF Checked, Kept, Tidy
<1> HIDE DEF v
<1>4. Checked(v, u, t.y)
  BY <1>1, <1>3, TrustChecked DEF v
<1>5. t.x = 0 => (Whole(u.lines[t.y]) => Apart(u.lines[t.y], t.x))
  BY DEF Whole, Apart
<1>6. t.x > 0 => Apart(u.lines[t.y], t.x)
  BY <1>1, <1>2, <1>4 DEF Checked
<1>8. t.x < 0 => Apart(u.lines[t.y], t.x)
  BY <1>1 DEF Apart
<1>7. Checked(t, u, t.y)
  BY <1>2, <1>4, CheckedTwice
<1> QED
  BY <1>1, <1>5, <1>6, <1>7, <1>8 DEF Checked, Kept, Tidy

\* The line that comes after an erased one is checked too.
LEMMA CheckBelowKept ==
    ASSUME NEW u \in Window
    PROVE  Kept(u, CheckBelow(u))
<1>1. CASE u.y + 1 \in Ys
  <2>1. Checked(u, CheckBelow(u), u.y + 1)
    BY <1>1, TrustChecked DEF CheckBelow
  <2> QED
    BY <2>1 DEF Checked
<1>2. CASE u.y + 1 \notin Ys
  BY <1>2, SameLines DEF CheckBelow
<1> QED
  BY <1>1, <1>2

\* EL to the end of the line, which also forgets how the line ended.
LEMMA EraseToEndKept ==
    ASSUME t \in Window, EraseToEnd
    PROVE  Kept(t, t')
<1> DEFINE u == check_trust_status(check_boundary(t, t.x, t.y), t.y)
           e == Erase(u, t.y, t.x..Cols - 1)
           l == e.lines[t.y]
           m == [l EXCEPT !.wrapped = FALSE, !.wrapped2 = FALSE]
           r == [e EXCEPT !.lines[t.y] = m]
<1>0. t.y \in Ys /\ t.x \in Int /\ Cols - 1 \in Int /\ Cols - 1 + 1 \notin Xs
  BY WindowOf
<1>1. Kept(t, u) /\ u \in Window /\ (Whole(u.lines[t.y]) => Apart(u.lines[t.y], t.x))
  BY EraseChecked
<1>2. t' = CheckBelow([e EXCEPT !.lines[t.y].wrapped = FALSE, !.lines[t.y].wrapped2 = FALSE])
  BY DEF EraseToEnd, Do
<1> HIDE DEF u
<1>3. Whole(u.lines[t.y]) => Apart(u.lines[t.y], t.x) /\ Apart(u.lines[t.y], Cols - 1 + 1)
  BY <1>0, <1>1 DEF Apart
<1>4. Kept(u, e) /\ e \in Window
  BY <1>0, <1>1, <1>3, EraseKept
<1> HIDE DEF e
<1>5. t' = CheckBelow(r)
  BY <1>0, <1>2, <1>4 DEF Window
<1>6. l \in LineRec
  BY <1>0, <1>4, LineOf
<1>7. m \in LineRec /\ m.trusted = l.trusted /\ m.cells = l.cells
  BY <1>6 DEF LineRec
<1> HIDE DEF m
<1>8. LineSet(e, r, t.y, m)
  BY <1>0, <1>4, <1>7, SetLine
<1>9. Kept(e, r) /\ r \in Window
  BY <1>7, <1>8 DEF LineSet, Kept, OneStatus, Fine, Whole
<1> HIDE DEF r
<1>10. Kept(r, t')
  BY <1>5, <1>9, CheckBelowKept
<1> QED
  BY <1>1, <1>4, <1>9, <1>10, KeptTwice

\* EL up to the cursor: it may part the pair the cursor is on the left half of.
LEMMA EraseToCursorTidy ==
    ASSUME t \in Window, EraseToCursor
    PROVE  Tidy(t, t')
<1> DEFINE u == check_trust_status(check_boundary(t, t.x, t.y), t.y)
<1>1. Kept(t, u) /\ u \in Window
  BY EraseChecked
<1>2. t' = Erase(u, t.y, 0..t.x)
  BY DEF EraseToCursor, Do
<1> HIDE DEF u
<1>3. Tidy(u, t')
  BY <1>1, <1>2, EraseTidy, WindowOf
<1> QED
  BY <1>1, <1>3 DEF Kept, Tidy

\* EL of the whole line: a new line.
LEMMA EraseLineKept ==
    ASSUME t \in Window, EraseLine
    PROVE  Kept(t, t')
<1> DEFINE m == BlankLine(t.trusted)
           r == [t EXCEPT !.lines[t.y] = m]
<1>1. t.y \in Ys /\ t.trusted \in BOOLEAN
  BY WindowOf
<1>2. m \in LineRec /\ OneStatus(m) /\ Whole(m)
  BY <1>1, BlankTypes
<1>3. t' = CheckBelow(r)
  BY DEF EraseLine, Do
<1> HIDE DEF m
<1>4. LineSet(t, r, t.y, m)
  BY <1>1, <1>2, SetLine
<1>5. Kept(t, r) /\ r \in Window
  BY <1>2, <1>4 DEF LineSet, Kept, Fine
<1> HIDE DEF r
<1>6. Kept(r, t')
  BY <1>3, <1>5, CheckBelowKept
<1> QED
  BY <1>5, <1>6, KeptTwice

\* The alignment test fills every line with single-width characters, of the
\* status of what is being printed.
LEMMA DECALNPairs ==
    ASSUME t \in Window, DECALN
    PROVE  t' \in Window /\ Pairs(t')
<1> DEFINE c == Cell("n", t.trusted)
           b(y) == [cells |-> [x \in Xs |-> c], wrapped |-> FALSE, wrapped2 |-> FALSE,
                    trusted |-> t.lines[y].trusted]
           f == [y \in Ys |-> b(y)]
<1>1. t' = [t EXCEPT !.lines = f]
  BY DEF DECALN, Do
<1>2. c \in CellRec /\ c.ch = "n"
  BY WindowOf DEF Cell, CellRec
<1> HIDE DEF c
<1>3. \A y \in Ys : b(y) \in LineRec /\ Whole(b(y))
  BY <1>2, LineOf DEF LineRec, Whole
<1> HIDE DEF b
<1>4. f \in [Ys -> LineRec] /\ \A y \in Ys : Whole(f[y])
  BY <1>3
<1> HIDE DEF f
<1>5. t' \in Window /\ t'.lines = f
  BY <1>1, <1>4 DEF Window
<1> QED
  BY <1>4, <1>5 DEF Pairs, Fine

---------------------------------------------------------------------------
(* The steps.                                                              *)

\* Moving the cursor and changing a mode touch no line.
LEMMA CursorKept ==
    ASSUME t \in Window,
           \/ SetTrust \/ InsertMode \/ DECAWM \/ BS
           \/ \E x \in Xs, y \in Ys : CUP(x, y)
    PROVE  Kept(t, t')
<1>0. /\ t.x \in Columns /\ t.y \in Ys /\ t.x \in Int /\ t.y \in Int /\ Cols \in Int
      /\ Rows \in Int /\ t.x < Cols /\ 0 <= t.y /\ t.y < Rows /\ Ys = 0..Rows - 1
  BY WindowOf
<1> SUFFICES t' \in Window /\ t'.lines = t.lines
  BY SameLines
<1>1. CASE SetTrust
  <2> DEFINE b == ~t.trusted
  <2>1. t' = [t EXCEPT !.trusted = b] /\ b \in BOOLEAN
    BY <1>1 DEF SetTrust, Do
  <2> HIDE DEF b
  <2> QED
    BY <2>1 DEF Window
<1>2. CASE InsertMode
  <2> DEFINE b == ~t.insert
  <2>1. t' = [t EXCEPT !.insert = b] /\ b \in BOOLEAN
    BY <1>2 DEF InsertMode, Do
  <2> HIDE DEF b
  <2> QED
    BY <2>1 DEF Window
<1>3. CASE DECAWM
  <2> DEFINE b == ~t.wrap
  <2>1. t' = [t EXCEPT !.wrap = b] /\ b \in BOOLEAN
    BY <1>3 DEF DECAWM, Do
  <2> HIDE DEF b
  <2> QED
    BY <2>1 DEF Window
<1>4. CASE BS
  <2>1. t' = IF t.x = 0 /\ (t.y = 0 \/ ~t.wrap) THEN t
             ELSE IF t.x = 0 THEN [t EXCEPT !.x = Cols - 1, !.y = t.y - 1]
             ELSE IF t.wrapnext THEN [t EXCEPT !.wrapnext = FALSE]
             ELSE [t EXCEPT !.x = t.x - 1]
    BY <1>4 DEF BS, Do
  <2>2. \/ t' = t
        \/ t' = [t EXCEPT !.x = Cols - 1, !.y = t.y - 1] /\ t.x = 0 /\ ~(t.y = 0)
        \/ t' = [t EXCEPT !.wrapnext = FALSE]
        \/ t' = [t EXCEPT !.x = t.x - 1] /\ ~(t.x = 0)
    BY <2>1
  <2>3. CASE t' = t
    BY <2>3
  <2>4. CASE t' = [t EXCEPT !.x = Cols - 1, !.y = t.y - 1] /\ t.x = 0 /\ ~(t.y = 0)
    <3>1. Cols - 1 \in Columns /\ t.y - 1 \in Ys
      BY <1>0, <2>4, XsInColumns
    <3> QED
      BY <2>4, <3>1 DEF Window
  <2>5. CASE t' = [t EXCEPT !.wrapnext = FALSE]
    BY <2>5 DEF Window
  <2>6. CASE t' = [t EXCEPT !.x = t.x - 1] /\ ~(t.x = 0)
    <3>1. t.x - 1 \in Columns
      BY <1>0, <2>6 DEF Columns
    <3> QED
      BY <2>6, <3>1 DEF Window
  <2> QED
    BY <2>2, <2>3, <2>4, <2>5, <2>6
<1>5. CASE \E x \in Xs, y \in Ys : CUP(x, y)
  <2>1. PICK x \in Xs, y \in Ys : CUP(x, y)
    BY <1>5
  <2>2. t' = [t EXCEPT !.x = x, !.y = y, !.wrapnext = FALSE] /\ x \in Columns
    BY <2>1, XsInColumns DEF CUP, Do
  <2> QED
    BY <2>2 DEF Window
<1> QED
  BY <1>1, <1>2, <1>3, <1>4, <1>5

\* Printing parts a pair only in insert mode.
LEMMA PrintKept ==
    ASSUME t \in Window, PrintNarrow \/ PrintWide \/ PrintCombining
    PROVE  Tidy(t, t') /\ (~t.insert => Kept(t, t'))
<1>1. CASE PrintNarrow
  <2> DEFINE u == Prepare(t, 1)
  <2>1. Tidy(t, u) /\ Marked(u) /\ u.x >= 0 /\ (~t.insert => Kept(t, u))
    BY <1>1, Prepared DEF PrintNarrow
  <2>2. t' = Narrow(u)
    BY <1>1 DEF PrintNarrow, Text
  <2> HIDE DEF u
  <2>3. Kept(u, t')
    BY <2>1, <2>2, NarrowKept DEF Tidy
  <2> QED
    BY <2>1, <2>3 DEF Kept, Tidy
<1>2. CASE PrintWide
  <2> DEFINE u == Prepare(t, 2)
  <2>1. Tidy(t, u) /\ Marked(u) /\ u.x >= 0 /\ (~t.insert => Kept(t, u))
    BY <1>2, Prepared DEF PrintWide
  <2>2. t' = IF linecols(u) < 2 THEN Narrow(u) ELSE Wide(u)
    BY <1>2 DEF PrintWide, Text
  <2> HIDE DEF u
  <2>3. u \in Window
    BY <2>1 DEF Tidy
  <2>4. Kept(u, t')
    <3>1. CASE linecols(u) < 2
      BY <3>1, <2>1, <2>2, <2>3, NarrowKept
    <3>2. CASE ~(linecols(u) < 2)
      <4>1. linecols(u) >= 2
        BY <3>2, <2>3, Usable
      <4> QED
        BY <4>1, <3>2, <2>1, <2>2, <2>3, WideKept
    <3> QED
      BY <3>1, <3>2
  <2> QED
    BY <2>1, <2>4 DEF Kept, Tidy
<1>3. CASE PrintCombining
  <2>1. t' = Combine(t)
    BY <1>3 DEF PrintCombining, Text
  <2> QED
    BY <2>1, CombineKept DEF Kept
<1> QED
  BY <1>1, <1>2, <1>3

\* ICH and DCH.
LEMMA ShiftKept ==
    ASSUME t \in Window, NEW n \in 1..2
    PROVE  (ICH(n) => Tidy(t, t')) /\ (DCH(n) => Kept(t, t'))
<1>0. n \in Nat \ {0} /\ 1 \in {-1, 1} /\ -1 \in {-1, 1}
  OBVIOUS
<1>1. ASSUME ICH(n) PROVE Tidy(t, t')
  <2>1. t' = insch(t, 1, n) /\ t.x >= 0
    BY <1>1 DEF ICH, Do
  <2> QED
    BY <1>0, <2>1, InschTidy
<1>2. ASSUME DCH(n) PROVE Kept(t, t')
  <2>1. t' = insch(t, -1, n) /\ t.x >= 0
    BY <1>2 DEF DCH, Do
  <2> QED
    BY <1>0, <2>1, InschTidy
<1> QED
  BY <1>1, <1>2

\* What every step keeps: the window is well formed, the lines keep one status
\* each unless the alignment test fills them, and the pairs stay whole but for
\* the two steps that check one side only.
Step(u, v) ==
    /\ v \in Window
    /\ Clean(u) => Clean(v) \/ DECALN
    /\ Pairs(u) => \/ Pairs(v) \/ EraseToCursor \/ t.insert \/ \E n \in 1..2 : ICH(n)

\* Every step of the terminal is such a step.
LEMMA NextStep ==
    ASSUME t \in Window, Next
    PROVE  Step(t, t')
<1>1. CASE PrintNarrow \/ PrintWide \/ PrintCombining
  BY <1>1, PrintKept DEF Step, Kept, Tidy
<1>2. CASE \/ SetTrust \/ InsertMode \/ DECAWM \/ BS
           \/ \E x \in Xs, y \in Ys : CUP(x, y)
  BY <1>2, CursorKept DEF Step, Kept, Tidy
<1>3. CASE DEL
  BY <1>3, DELKept DEF Step, Kept, Tidy
<1>4. CASE \E n \in 1..2 : ICH(n)
  BY <1>4, ShiftKept DEF Step, Tidy
<1>5. CASE \E n \in 1..2 : DCH(n)
  BY <1>5, ShiftKept DEF Step, Kept, Tidy
<1>6. CASE \E n \in 1..2 : ECH(n)
  BY <1>6, ECHKept DEF Step, Kept, Tidy
<1>7. CASE EraseToEnd
  BY <1>7, EraseToEndKept DEF Step, Kept, Tidy
<1>8. CASE EraseToCursor
  BY <1>8, EraseToCursorTidy DEF Step, Tidy
<1>9. CASE EraseLine
  BY <1>9, EraseLineKept DEF Step, Kept, Tidy
<1>10. CASE DECALN
  BY <1>10, DECALNPairs DEF Step
<1> QED
  BY <1>1, <1>2, <1>3, <1>4, <1>5, <1>6, <1>7, <1>8, <1>9, <1>10 DEF Next

\* The window starts well formed.
LEMMA InitWindow == Init => t \in Window
<1> SUFFICES ASSUME Init PROVE t \in Window
  OBVIOUS
<1>1. PICK b \in BOOLEAN :
        t = [lines |-> [y \in Ys |-> BlankLine(FALSE)],
             x |-> 0, y |-> 0, wrapnext |-> FALSE, insert |-> FALSE, wrap |-> TRUE,
             trusted |-> b, scrolled |-> FALSE]
  BY DEF Init
<1>2. 0 \in Columns /\ 0 \in Ys
  BY ConstAssumption, XsInColumns DEF Ys
<1>3. BlankLine(FALSE) \in LineRec
  BY BlankTypes
<1> QED
  BY <1>1, <1>2, <1>3 DEF Window

\* Every behaviour keeps the window well formed.
THEOREM WindowInvariant == Spec => [](t \in Window)
<1>1. t \in Window /\ [Next]_vars => (t \in Window)'
  BY NextStep DEF Step, vars
<1> QED
  BY InitWindow, <1>1, PTL DEF Spec

\* The cursor stays in the window if the window is wider than the trust sigil,
\* and never leaves it but to the left; every cell is of one of the four kinds
\* (linecols in term_display_graphic_char(), terminal.c).
THEOREM TypeCorrect == Spec => []TypeOK
<1>1. t \in Window => TypeOK
  <2> SUFFICES ASSUME t \in Window PROVE TypeOK
    OBVIOUS
  <2>1. /\ t.x < Cols /\ (t.x < 0 => Cols <= TRUST_SIGIL_WIDTH)
        /\ t.y \in Ys /\ t.wrapnext \in BOOLEAN
    BY DEF Window, Columns
  <2>2. ASSUME NEW y \in Ys
        PROVE  /\ DOMAIN t.lines[y].cells = Xs
               /\ \A x \in Xs : t.lines[y].cells[x].ch \in {"blank", "n", "w", "UCSWIDE"}
    <3>1. t.lines[y].cells \in [Xs -> CellRec]
      BY LineOf
    <3>2. \A x \in Xs : t.lines[y].cells[x] \in CellRec
      BY <3>1
    <3> QED
      BY <3>1, <3>2 DEF CellRec
  <2> QED
    BY <2>1, <2>2 DEF TypeOK
<1> QED
  BY <1>1, WindowInvariant, PTL

\* A step from lines of one status each ends in lines of one status each, unless
\* it is the alignment test: check_trust_status() comes before every write.
THEOREM StatusIsKept == Spec => StatusKept
<1>1. t \in Window /\ [Next]_vars =>
        [(\A y \in Ys : OneStatus(t.lines[y]))
            => (\A y \in Ys : OneStatus(t.lines[y])') \/ DECALN]_vars
  BY NextStep DEF Step, Clean, OneStatus, vars
<1> QED
  BY <1>1, WindowInvariant, PTL DEF Spec, StatusKept

\* Both halves of every wide character stay together, in every step but an
\* insertion and an erase up to the cursor: check_boundary() on both sides of
\* what a function changes is enough.
THEOREM PairsAreKept == Spec => PairsKept
<1>1. t \in Window /\ [Next]_vars =>
        [PairsWhole => \/ PairsWhole' \/ EraseToCursor \/ t.insert
                       \/ \E n \in 1..2 : ICH(n)]_vars
  BY NextStep DEF Step, Pairs, Fine, Whole, PairsWhole, vars
<1> QED
  BY <1>1, WindowInvariant, PTL DEF Spec, PairsKept
=============================================================================
