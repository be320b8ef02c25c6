------------------------------- MODULE Console -------------------------------
(***************************************************************************)
(* The text console, kscm/console.c: a cursor, and a pointer into the      *)
(* video memory that console_print moves along with it.                    *)
(*                                                                         *)
(* Video memory is counted in cells of two bytes from pg_vbuff on. The     *)
(* attribute byte, 0x0f in every write, and cur_p, which nothing reads,    *)
(* are left out.                                                           *)
(***************************************************************************)
EXTENDS Integers

CONSTANTS
  Cols,       (* ORIG_VIDEO_COLS: 80                                        *)
  Lines,      (* 25                                                         *)
  PageCells,  (* the cells scroll_down moves, 0x1000 bytes: 2048            *)
  Chars,      (* the characters that take up a cell                         *)
  Blank       (* what the BIOS leaves in a cell                             *)

(* A page holds the screen, and the page after it lies in video memory.    *)
ASSUME ConsoleAssumption ==
  /\ Cols \in 1 .. 255 /\ Lines \in 1 .. 255
  /\ PageCells \in Nat /\ Cols * Lines <= PageCells

Cells  == 0 .. PageCells + Cols - 1
Screen == 0 .. Cols * Lines - 1

VARIABLES
  cur_x, cur_y,   (* the cursor of _g_con_attr                              *)
  vram,           (* the cells of the page, and the ones after it           *)
  printing,       (* console_print is in its loop                           *)
  vp              (* its pointer to the cell of the next character          *)

vars == <<cur_x, cur_y, vram, printing, vp>>

(* console_init takes the cursor where the BIOS left it, on a screen that  *)
(* shows anything. Below the screen nothing was ever written.              *)
Init ==
  /\ cur_x \in 0 .. Cols - 1 /\ cur_y \in 0 .. Lines - 1
  /\ vram \in [Cells -> Chars \cup {Blank}]
  /\ \A i \in Cells \ Screen : vram[i] = Blank
  /\ printing = FALSE
  /\ vp = 0

-----------------------------------------------------------------------------
(* The pointer console_print starts from. *)
StartPrint ==
  /\ ~ printing
  /\ printing' = TRUE
  /\ vp' = cur_y * Cols + cur_x
  /\ UNCHANGED <<cur_x, cur_y, vram>>

EndPrint ==
  /\ printing
  /\ printing' = FALSE
  /\ vp' = 0
  /\ UNCHANGED <<cur_x, cur_y, vram>>

(* scroll_down(1): the cells after the page come into its end.             *)
ShortScrolled(m) == [i \in Cells |-> IF i < PageCells - Cols THEN m[i + Cols] ELSE m[i]]

Scrolled(m) == [i \in Cells |-> IF i < PageCells THEN m[i + Cols] ELSE m[i]]

(* One turn of the loop that leaves the cursor at cx, cy, the pointer at v *)
(* and the memory m ends with the test whether the screen is full.         *)
StuckCursor(cx, cy, v, m) ==
  /\ printing /\ UNCHANGED printing
  /\ cur_x' = cx
  /\ IF cy >= Lines
     THEN cur_y' = cy - 1 /\ vp' = v /\ vram' = Scrolled(m)
     ELSE cur_y' = cy /\ vp' = v /\ vram' = m

Moved(cx, cy, v, m) ==
  /\ printing /\ UNCHANGED printing
  /\ cur_x' = cx
  /\ IF cy >= Lines
     THEN cur_y' = cy - 1 /\ vp' = v - Cols /\ vram' = Scrolled(m)
     ELSE cur_y' = cy /\ vp' = v /\ vram' = m

NewLine == Moved(0, cur_y + 1, vp + (Cols - cur_x), vram)

CarriageReturn == Moved(0, cur_y, vp - cur_x, vram)

(* The cursor moves before the character is stored, through the pointer.   *)
Put(c) ==
  LET wraps == cur_x + 1 >= Cols
  IN  Moved(IF wraps THEN 0 ELSE cur_x + 1,
            IF wraps THEN cur_y + 1 ELSE cur_y,
            vp + 1,
            [vram EXCEPT ![vp] = c])

Next ==
  \/ StartPrint \/ EndPrint
  \/ NewLine \/ CarriageReturn
  \/ \E c \in Chars : Put(c)

Spec == Init /\ [][Next]_vars

-----------------------------------------------------------------------------
(***************************************************************************)
(* The types of the state. The cursor is always on the screen.             *)
(***************************************************************************)
TypeOK ==
  /\ cur_x \in 0 .. Cols - 1 /\ cur_y \in 0 .. Lines - 1
  /\ vram \in [Cells -> Chars \cup {Blank}]
  /\ printing \in BOOLEAN
  /\ vp \in Int

(***************************************************************************)
(* The pointer and the cursor, which every branch of console_print moves   *)
(* by expressions of its own, never part, the cursor never leaves the      *)
(* screen, and neither does a store.                                       *)
(***************************************************************************)
PointerAtCursor ==
  /\ TypeOK
  /\ printing => vp = cur_y * Cols + cur_x /\ vp \in Screen

(***************************************************************************)
(* The console shows what a terminal shows. The line that comes in at the  *)
(* bottom is blank because nothing is ever written below the screen.       *)
(***************************************************************************)
Display == INSTANCE Terminal WITH
  screen <- [rc \in (0 .. Lines - 1) \X (0 .. Cols - 1) |-> vram[rc[1] * Cols + rc[2]]],
  x <- cur_x,
  y <- cur_y

ImplementsTerminal == Display!Spec

=============================================================================
