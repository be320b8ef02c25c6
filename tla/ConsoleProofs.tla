---------------------------- MODULE ConsoleProofs ----------------------------
(***************************************************************************)
(* Proofs about Console, for every size of the screen and of the page that *)
(* ConsoleAssumption admits.                                               *)
(*                                                                         *)
(* Every branch of the loop of console_print is a Moved from a place on    *)
(* the screen to the place after it in the order of the cells, so what     *)
(* keeps the pointer at the cursor is shown once, for Moved. That a blank  *)
(* line scrolls in needs one more fact: nothing is ever written below the  *)
(* screen.                                                                 *)
(***************************************************************************)
EXTENDS Console, TLAPS

Rows    == 0 .. Lines - 1
Columns == 0 .. Cols - 1

(* The cell of a column of a line.                                         *)
Cell(cy, cx) == cy * Cols + cx

BlankBelow == \A i \in Cells \ Screen : vram[i] = Blank

IInv == PointerAtCursor /\ BlankBelow

-----------------------------------------------------------------------------
(* The cells of the lines follow each other.                               *)
LEMMA CellArithmetic ==
  ASSUME NEW cy \in 0 .. Lines, NEW cx \in Columns
  PROVE  /\ Cell(cy, cx) \in Nat
         /\ Cell(cy + 1, cx) = Cell(cy, cx) + Cols
         /\ Cell(cy + 1, 0) = Cell(cy, cx) + (Cols - cx)
         /\ cy # Lines => Cell(cy, cx) \in Screen
         /\ cy = Lines => Cell(cy, cx) \in Cells \ Screen
         /\ Screen \subseteq Cells
<1>1. /\ Cols \in Nat /\ Lines \in Nat /\ Cols >= 1 /\ PageCells \in Nat
      /\ Cols * Lines \in Nat /\ Cols * Lines <= PageCells
      /\ cx \in Nat /\ cx < Cols /\ cy \in Nat /\ cy <= Lines
  BY ConsoleAssumption DEF Columns
<1>2. cy * Cols \in Nat /\ (cy + 1) * Cols = cy * Cols + Cols
  BY <1>1
<1>3. cy # Lines => (cy + 1) * Cols <= Cols * Lines
  BY <1>1
<1>4. cy = Lines => cy * Cols = Cols * Lines
  BY <1>1
<1>5. cy # Lines => cy * Cols + Cols <= Cols * Lines
  BY <1>2, <1>3
<1> DEFINE a == cy * Cols
           b == Cols * Lines
<1>6. Cell(cy, cx) = a + cx /\ Cell(cy + 1, cx) = (a + Cols) + cx /\ Cell(cy + 1, 0) = (a + Cols) + 0
  BY <1>2 DEF Cell
<1>7. Screen = 0 .. b - 1 /\ Cells = 0 .. PageCells + Cols - 1
  BY DEF Screen, Cells
<1>8. a \in Nat /\ b \in Nat /\ b <= PageCells /\ (cy # Lines => a + Cols <= b) /\ (cy = Lines => a = b)
  BY <1>1, <1>2, <1>4, <1>5
<1> HIDE DEF a, b
<1>9. QED
  BY <1>1, <1>6, <1>7, <1>8

(* Two cells are the same only if their lines and columns are.             *)
LEMMA CellInjective ==
  ASSUME NEW r \in Rows, NEW s \in Rows, NEW c \in Columns, NEW d \in Columns,
         Cell(r, c) = Cell(s, d)
  PROVE  r = s /\ c = d
<1>1. /\ Cols \in Nat /\ Lines \in Nat /\ Cols >= 1
      /\ r \in Nat /\ s \in Nat /\ c \in Nat /\ d \in Nat /\ c < Cols /\ d < Cols
  BY ConsoleAssumption DEF Rows, Columns
<1>2. r * Cols + c = s * Cols + d
  BY DEF Cell
<1>3. \A m, n \in Nat : m < n => m * Cols + Cols <= n * Cols
  <2> SUFFICES ASSUME NEW m \in Nat, NEW n \in Nat, m < n PROVE m * Cols + Cols <= n * Cols
    OBVIOUS
  <2>1. (m + 1) * Cols <= n * Cols /\ (m + 1) * Cols = m * Cols + Cols
    BY <1>1
  <2>2. QED
    BY <2>1
<1>4. r = s
  <2> DEFINE a == r * Cols
             b == s * Cols
  <2>1. a \in Nat /\ b \in Nat /\ a + c = b + d
    BY <1>1, <1>2
  <2>2. (r < s => a + Cols <= b) /\ (s < r => b + Cols <= a)
    BY <1>1, <1>3
  <2> HIDE DEF a, b
  <2>3. QED
    BY <1>1, <2>1, <2>2
<1>5. QED
  BY <1>1, <1>2, <1>4

(* scroll_down reads cells that there are, and takes every cell from one   *)
(* line below.                                                             *)
LEMMA ScrolledCells ==
  ASSUME NEW m \in [Cells -> Chars \cup {Blank}]
  PROVE  /\ Scrolled(m) \in [Cells -> Chars \cup {Blank}]
         /\ \A cy \in Rows, cx \in Columns : Scrolled(m)[Cell(cy, cx)] = m[Cell(cy + 1, cx)]
         /\ (\A i \in Cells \ Screen : m[i] = Blank)
              => \A i \in Cells \ Screen : Scrolled(m)[i] = Blank
<1>1. Cols \in Nat /\ PageCells \in Nat /\ Cols * Lines \in Nat /\ Cols * Lines <= PageCells
  BY ConsoleAssumption
<1>2. \A i \in Cells : i < PageCells => i + Cols \in Cells /\ (i \notin Screen => i + Cols \notin Screen)
  <2> DEFINE b == Cols * Lines
  <2>1. Screen = 0 .. b - 1 /\ b \in Nat
    BY <1>1 DEF Screen
  <2> HIDE DEF b
  <2>2. QED
    BY <1>1, <2>1 DEF Cells
<1>3. \A cy \in Rows, cx \in Columns :
        /\ Cell(cy, cx) \in Cells /\ Cell(cy, cx) < PageCells
        /\ Cell(cy + 1, cx) = Cell(cy, cx) + Cols
  <2> SUFFICES ASSUME NEW cy \in Rows, NEW cx \in Columns
               PROVE  /\ Cell(cy, cx) \in Cells /\ Cell(cy, cx) < PageCells
                      /\ Cell(cy + 1, cx) = Cell(cy, cx) + Cols
    OBVIOUS
  <2>1. cy \in 0 .. Lines /\ cy # Lines
    BY ConsoleAssumption DEF Rows
  <2>2. Cell(cy, cx) \in Screen /\ Screen \subseteq Cells /\ Cell(cy + 1, cx) = Cell(cy, cx) + Cols
    BY <2>1, CellArithmetic
  <2>3. \A i \in Screen : i < PageCells
    BY <1>1 DEF Screen
  <2>4. QED
    BY <2>2, <2>3
<1>4. QED
  BY <1>2, <1>3 DEF Scrolled

-----------------------------------------------------------------------------
(* The pointer goes with the cursor: a turn of the loop that leaves the    *)
(* pointer v at the cell of the cursor cx, cy keeps the invariant, whether *)
(* the screen scrolls or not.                                              *)
LEMMA MovedIInv ==
  ASSUME NEW cx \in Columns, NEW cy \in 0 .. Lines, NEW v, NEW m \in [Cells -> Chars \cup {Blank}],
         v = Cell(cy, cx), \A i \in Cells \ Screen : m[i] = Blank,
         Moved(cx, cy, v, m)
  PROVE  IInv'
<1>1. printing' /\ printing' \in BOOLEAN /\ cur_x' = cx
  BY DEF Moved
<1>2. CASE cy = Lines
  <2>1. cy >= Lines /\ cy - 1 \in Rows /\ cy - 1 \in 0 .. Lines /\ cy - 1 # Lines /\ (cy - 1) + 1 = cy
    BY <1>2, ConsoleAssumption DEF Rows
  <2>2. cur_y' = cy - 1 /\ vp' = v - Cols /\ vram' = Scrolled(m)
    BY <2>1 DEF Moved
  <2>3. /\ Cell(cy - 1, cx) \in Nat /\ Cell(cy - 1, cx) \in Screen
        /\ Cell(cy, cx) = Cell(cy - 1, cx) + Cols
    BY <2>1, CellArithmetic
  <2>4. vp' = Cell(cy - 1, cx)
    BY <2>2, <2>3, ConsoleAssumption
  <2>5. QED
    BY <1>1, <2>1, <2>2, <2>3, <2>4, ScrolledCells
       DEF IInv, PointerAtCursor, TypeOK, BlankBelow, Cell, Columns, Rows
<1>3. CASE cy # Lines
  <2>1. ~ (cy >= Lines) /\ cy \in Rows
    BY <1>3, ConsoleAssumption DEF Rows
  <2>2. cur_y' = cy /\ vp' = v /\ vram' = m
    BY <2>1 DEF Moved
  <2>3. Cell(cy, cx) \in Nat /\ Cell(cy, cx) \in Screen
    BY <1>3, CellArithmetic
  <2>4. QED
    BY <1>1, <2>1, <2>2, <2>3 DEF IInv, PointerAtCursor, TypeOK, BlankBelow, Cell, Columns, Rows
<1>4. QED
  BY <1>2, <1>3

(* What the loop knows when it looks at the next character. *)
LEMMA CursorShape ==
  ASSUME IInv, printing
  PROVE  /\ cur_x \in Columns /\ cur_y \in Rows
         /\ cur_y \in 0 .. Lines /\ cur_y + 1 \in 0 .. Lines /\ cur_y # Lines
         /\ 0 \in Columns
         /\ vp = Cell(cur_y, cur_x) /\ vp \in Screen /\ vp \in Cells
         /\ vram \in [Cells -> Chars \cup {Blank}]
<1>1. /\ cur_x \in Columns /\ cur_y \in Rows /\ vram \in [Cells -> Chars \cup {Blank}]
      /\ vp = Cell(cur_y, cur_x) /\ vp \in Screen
  BY DEF IInv, PointerAtCursor, TypeOK, Rows, Columns, Cell
<1>2. cur_y \in 0 .. Lines /\ cur_y + 1 \in 0 .. Lines /\ cur_y # Lines /\ 0 \in Columns
  BY <1>1, ConsoleAssumption DEF Rows, Columns
<1>3. QED
  BY <1>1, <1>2, CellArithmetic

(* Where a character takes the cursor: to the next cell. *)
LEMMA PutMoves ==
  ASSUME IInv, NEW c \in Chars, Put(c)
  PROVE  \E cx \in Columns, cy \in 0 .. Lines :
           /\ vp + 1 = Cell(cy, cx)
           /\ IF cur_x = Cols - 1 THEN cx = 0 /\ cy = cur_y + 1 ELSE cx = cur_x + 1 /\ cy = cur_y
           /\ Moved(cx, cy, vp + 1, [vram EXCEPT ![vp] = c])
<1>1. printing /\ Cols \in Nat
  BY ConsoleAssumption DEF Put, Moved
<1>2. CASE cur_x = Cols - 1
  <2>1. cur_x + 1 >= Cols
    BY <1>1, <1>2
  <2>2. Moved(0, cur_y + 1, vp + 1, [vram EXCEPT ![vp] = c])
    BY <2>1 DEF Put
  <2>3. Cell(cur_y + 1, 0) = vp + (Cols - cur_x) /\ Cols - cur_x = 1
    BY <1>1, <1>2, CursorShape, CellArithmetic
  <2>4. QED
    BY <1>1, <1>2, <2>2, <2>3, CursorShape
<1>3. CASE cur_x # Cols - 1
  <2>1. ~ (cur_x + 1 >= Cols) /\ cur_x + 1 \in Columns
    BY <1>1, <1>3, CursorShape DEF Columns
  <2>2. Moved(cur_x + 1, cur_y, vp + 1, [vram EXCEPT ![vp] = c])
    BY <2>1 DEF Put
  <2>3. vp + 1 = Cell(cur_y, cur_x + 1)
    <3>1. cur_y * Cols \in Nat /\ cur_x \in Nat /\ vp = cur_y * Cols + cur_x
      BY <1>1, CursorShape DEF Cell, Rows, Columns
    <3>2. QED
      BY <3>1 DEF Cell
  <2>4. QED
    BY <1>1, <1>3, <2>1, <2>2, <2>3, CursorShape
<1>4. QED
  BY <1>2, <1>3

(* A character goes to the screen, and nothing else is written.            *)
LEMMA StoredMemory ==
  ASSUME IInv, printing, NEW c \in Chars
  PROVE  LET m == [vram EXCEPT ![vp] = c]
         IN  /\ m \in [Cells -> Chars \cup {Blank}]
             /\ \A i \in Cells \ Screen : m[i] = Blank
  BY CursorShape DEF IInv, BlankBelow

LEMMA InitIInv == Init => IInv
<1> SUFFICES ASSUME Init PROVE IInv
  OBVIOUS
<1>1. ~ printing /\ printing \in BOOLEAN
  BY Zenon DEF Init
<1>2. TypeOK /\ BlankBelow
  BY <1>1 DEF Init, TypeOK, BlankBelow
<1>3. QED
  BY <1>1, <1>2 DEF IInv, PointerAtCursor

LEMMA NextIInv == IInv /\ [Next]_vars => IInv'
<1> SUFFICES ASSUME IInv, [Next]_vars PROVE IInv'
  OBVIOUS
<1>1. CASE StartPrint
  <2>1. cur_x \in Columns /\ cur_y \in Rows /\ cur_y \in 0 .. Lines /\ cur_y # Lines
    BY ConsoleAssumption DEF IInv, PointerAtCursor, TypeOK, Rows, Columns
  <2>2. Cell(cur_y, cur_x) \in Screen /\ Cell(cur_y, cur_x) \in Nat
    BY <2>1, CellArithmetic
  <2>3. QED
    BY <1>1, <2>2 DEF StartPrint, IInv, PointerAtCursor, TypeOK, BlankBelow, Cell
<1>2. CASE EndPrint
  <2>1. ~ printing' /\ printing' \in BOOLEAN
    BY <1>2, Zenon DEF EndPrint
  <2>2. TypeOK' /\ BlankBelow'
    BY <1>2, <2>1 DEF EndPrint, IInv, PointerAtCursor, TypeOK, BlankBelow
  <2>3. QED
    BY <2>1, <2>2 DEF IInv, PointerAtCursor
<1>3. CASE NewLine
  <2>1. printing
    BY <1>3 DEF NewLine, Moved
  <2>2. vp + (Cols - cur_x) = Cell(cur_y + 1, 0)
    BY <2>1, CursorShape, CellArithmetic
  <2>3. QED
    BY <1>3, <2>1, <2>2, CursorShape, MovedIInv DEF NewLine, IInv, BlankBelow
<1>4. CASE CarriageReturn
  <2>1. printing
    BY <1>4 DEF CarriageReturn, Moved
  <2>2. vp - cur_x = Cell(cur_y, 0)
    <3>1. Cols \in Nat /\ cur_y * Cols \in Nat /\ cur_x \in Nat /\ vp = cur_y * Cols + cur_x
      BY <2>1, CursorShape, ConsoleAssumption DEF Cell, Rows, Columns
    <3>2. QED
      BY <3>1 DEF Cell
  <2>3. QED
    BY <1>4, <2>1, <2>2, CursorShape, MovedIInv DEF CarriageReturn, IInv, BlankBelow
<1>5. ASSUME NEW c \in Chars, Put(c) PROVE IInv'
  <2>1. printing
    BY <1>5 DEF Put, Moved
  <2>2. QED
    BY <1>5, <2>1, PutMoves, StoredMemory, MovedIInv
<1>6. CASE UNCHANGED vars
  BY <1>6 DEF vars, IInv, PointerAtCursor, TypeOK, BlankBelow
<1>7. QED
  BY <1>1, <1>2, <1>3, <1>4, <1>5, <1>6 DEF Next

LEMMA Inductive == Spec => []IInv
  BY InitIInv, NextIInv, PTL DEF Spec

(* The pointer and the cursor of console_print, moved by expressions of    *)
(* their own in every branch, never part, and neither leaves the screen.   *)
THEOREM PointerStaysAtCursor == Spec => []PointerAtCursor
<1>1. IInv => PointerAtCursor
  BY DEF IInv
<1>2. QED
  BY <1>1, Inductive, PTL

-----------------------------------------------------------------------------
(* What a memory shows on the screen. *)
Shown(m) == [rc \in Rows \X Columns |-> m[Cell(rc[1], rc[2])]]

LEMMA ScreenIsShown ==
  /\ [rc \in (0 .. Lines - 1) \X (0 .. Cols - 1) |-> vram[rc[1] * Cols + rc[2]]] = Shown(vram)
  /\ [rc \in (0 .. Lines - 1) \X (0 .. Cols - 1) |-> vram'[rc[1] * Cols + rc[2]]] = Shown(vram')
  BY DEF Shown, Rows, Columns, Cell

(* After scroll_down every line shows the one below it, and the last one   *)
(* is blank: it comes from cells behind the screen.                        *)
LEMMA ScrolledShows ==
  ASSUME NEW m \in [Cells -> Chars \cup {Blank}], \A i \in Cells \ Screen : m[i] = Blank
  PROVE  Shown(Scrolled(m)) =
           [rc \in Rows \X Columns |->
              IF rc[1] = Lines - 1 THEN Blank ELSE Shown(m)[<<rc[1] + 1, rc[2]>>]]
<1>1. ASSUME NEW r \in Rows, NEW c \in Columns
      PROVE  Scrolled(m)[Cell(r, c)] = IF r = Lines - 1 THEN Blank ELSE Shown(m)[<<r + 1, c>>]
  <2>1. Scrolled(m)[Cell(r, c)] = m[Cell(r + 1, c)]
    BY ScrolledCells
  <2>2. CASE r = Lines - 1
    <3>1. r + 1 = Lines /\ Lines \in 0 .. Lines
      BY <2>2, ConsoleAssumption
    <3>2. Cell(r + 1, c) \in Cells \ Screen
      BY <3>1, CellArithmetic
    <3>3. QED
      BY <2>1, <2>2, <3>2
  <2>3. CASE r # Lines - 1
    <3>1. r + 1 \in Rows
      BY <2>3, ConsoleAssumption DEF Rows
    <3>2. Shown(m)[<<r + 1, c>>] = m[Cell(r + 1, c)]
      BY <3>1 DEF Shown
    <3>3. QED
      BY <2>1, <2>3, <3>2
  <2>4. QED
    BY <2>2, <2>3
<1>2. \A rc \in Rows \X Columns : rc[1] \in Rows /\ rc[2] \in Columns
  OBVIOUS
<1>3. QED
  BY <1>1, <1>2 DEF Shown

(* A store through the pointer shows at the cursor and nowhere else.       *)
LEMMA StoredShows ==
  ASSUME IInv, printing, NEW c \in Chars
  PROVE  Shown([vram EXCEPT ![vp] = c]) = [Shown(vram) EXCEPT ![<<cur_y, cur_x>>] = c]
<1>1. /\ cur_x \in Columns /\ cur_y \in Rows /\ vp = Cell(cur_y, cur_x) /\ vp \in Cells
      /\ vram \in [Cells -> Chars \cup {Blank}]
  BY CursorShape
<1>2. ASSUME NEW rc \in Rows \X Columns
      PROVE  [vram EXCEPT ![vp] = c][Cell(rc[1], rc[2])] =
               IF rc = <<cur_y, cur_x>> THEN c ELSE vram[Cell(rc[1], rc[2])]
  <2>1. PICK r \in Rows, d \in Columns : rc = <<r, d>>
    OBVIOUS
  <2>2. r \in 0 .. Lines /\ r # Lines
    BY ConsoleAssumption DEF Rows
  <2>3. Cell(r, d) \in Cells
    BY <2>2, CellArithmetic
  <2>4. Cell(r, d) = vp => r = cur_y /\ d = cur_x
    BY <1>1, CellInjective
  <2>5. QED
    BY <1>1, <2>1, <2>3, <2>4
<1>3. QED
  BY <1>2 DEF Shown

(* A turn of the loop is the terminal's move of the cursor.                *)
LEMMA MovedShows ==
  ASSUME NEW cx \in Columns, NEW cy \in 0 .. Lines, NEW v, NEW m \in [Cells -> Chars \cup {Blank}],
         \A i \in Cells \ Screen : m[i] = Blank,
         Moved(cx, cy, v, m)
  PROVE  Display!MoveTo(Shown(m), cx, cy)
<1>1. cur_x' = cx
  BY DEF Moved
<1>2. CASE cy = Lines
  <2>1. cy >= Lines /\ cy \notin Rows /\ cy - 1 = Lines - 1
    BY <1>2, ConsoleAssumption DEF Rows
  <2>2. cur_y' = Lines - 1 /\ vram' = Scrolled(m)
    BY <2>1 DEF Moved
  <2>3. Shown(vram') = [rc \in Rows \X Columns |->
           IF rc[1] = Lines - 1 THEN Blank ELSE Shown(m)[<<rc[1] + 1, rc[2]>>]]
    BY <2>2, ScrolledShows
  <2>4. QED
    BY <1>1, <2>1, <2>2, <2>3, ScreenIsShown DEF Display!MoveTo, Display!Rows, Display!Columns, Rows, Columns
<1>3. CASE cy # Lines
  <2>1. ~ (cy >= Lines) /\ cy \in Rows
    BY <1>3, ConsoleAssumption DEF Rows
  <2>2. cur_y' = cy /\ vram' = m
    BY <2>1 DEF Moved
  <2>3. QED
    BY <1>1, <2>1, <2>2, ScreenIsShown DEF Display!MoveTo, Display!Rows, Rows
<1>4. QED
  BY <1>2, <1>3

(***************************************************************************)
(* Console implements Terminal: whatever is printed, the screen is that of *)
(* a terminal that wraps and scrolls, for every size of the screen.        *)
(***************************************************************************)
THEOREM ConsoleImplementsTerminal == Spec => ImplementsTerminal
<1>1. Init => Display!Init
  <2> SUFFICES ASSUME Init PROVE Display!Init
    OBVIOUS
  <2>1. \A rc \in Rows \X Columns : Cell(rc[1], rc[2]) \in Cells
    <3>1. \A rc \in Rows \X Columns : rc[1] \in 0 .. Lines /\ rc[1] # Lines /\ rc[2] \in Columns
      BY ConsoleAssumption DEF Rows
    <3>2. QED
      BY <3>1, CellArithmetic
  <2>2. Shown(vram) \in [Rows \X Columns -> Chars \cup {Blank}]
    BY <2>1 DEF Init, Shown
  <2>3. QED
    BY <2>2, ScreenIsShown DEF Init, Display!Init, Display!Rows, Display!Columns, Rows, Columns
<1>2. IInv /\ [Next]_vars => [Display!Next]_(Display!tvars)
  <2> SUFFICES ASSUME IInv, [Next]_vars PROVE [Display!Next]_(Display!tvars)
    OBVIOUS
  <2>1. CASE NewLine
    <3>1. printing /\ Moved(0, cur_y + 1, vp + (Cols - cur_x), vram)
      BY <2>1 DEF NewLine, Moved
    <3>2. PICK cx \in Columns, cy \in 0 .. Lines :
            cx = 0 /\ cy = cur_y + 1 /\ Moved(cx, cy, vp + (Cols - cur_x), vram)
      BY <3>1, CursorShape
    <3>3. Display!MoveTo(Shown(vram), cx, cy)
      BY <3>1, <3>2, CursorShape, MovedShows DEF IInv, BlankBelow
    <3>4. QED
      BY <3>2, <3>3, ScreenIsShown DEF Display!Next, Display!NewLine, Display!MoveTo
  <2>2. CASE CarriageReturn
    <3>1. printing /\ Moved(0, cur_y, vp - cur_x, vram)
      BY <2>2 DEF CarriageReturn, Moved
    <3>2. PICK cx \in Columns, cy \in 0 .. Lines :
            cx = 0 /\ cy = cur_y /\ Moved(cx, cy, vp - cur_x, vram)
      BY <3>1, CursorShape
    <3>3. Display!MoveTo(Shown(vram), cx, cy)
      BY <3>1, <3>2, CursorShape, MovedShows DEF IInv, BlankBelow
    <3>4. QED
      BY <3>2, <3>3, ScreenIsShown DEF Display!Next, Display!CarriageReturn, Display!MoveTo
  <2>3. ASSUME NEW c \in Chars, Put(c) PROVE Display!Next
    <3> DEFINE s == [Shown(vram) EXCEPT ![<<cur_y, cur_x>>] = c]
    <3>1. printing
      BY <2>3 DEF Put, Moved
    <3>2. PICK cx \in Columns, cy \in 0 .. Lines :
            /\ IF cur_x = Cols - 1 THEN cx = 0 /\ cy = cur_y + 1 ELSE cx = cur_x + 1 /\ cy = cur_y
            /\ Moved(cx, cy, vp + 1, [vram EXCEPT ![vp] = c])
      BY <2>3, PutMoves
    <3>3. Display!MoveTo(s, cx, cy)
      BY <3>1, <3>2, StoredMemory, StoredShows, MovedShows
    <3>4. Display!Put(c)
      <4>1. IF cur_x = Cols - 1 THEN Display!MoveTo(s, 0, cur_y + 1)
            ELSE Display!MoveTo(s, cur_x + 1, cur_y)
        <5> HIDE DEF s
        <5>1. QED
          BY <3>2, <3>3 DEF Display!MoveTo
      <4>2. QED
        BY <4>1, ScreenIsShown DEF Display!Put
    <3>5. QED
      BY <3>4 DEF Display!Next
  <2>4. CASE StartPrint \/ EndPrint \/ UNCHANGED vars
    BY <2>4 DEF StartPrint, EndPrint, vars, Display!tvars
  <2>5. QED
    BY <2>1, <2>2, <2>3, <2>4 DEF Next
<1>3. QED
  BY <1>1, <1>2, Inductive, PTL DEF Spec, Display!Spec, ImplementsTerminal

=============================================================================
