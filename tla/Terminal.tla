------------------------------ MODULE Terminal ------------------------------
(***************************************************************************)
(* What a user of console_print expects of the screen: characters appear   *)
(* at the cursor, lines wrap, and the screen scrolls by one line, with a   *)
(* blank line coming in at the bottom.                                     *)
(***************************************************************************)
EXTENDS Integers

CONSTANTS Cols, Lines, Chars, Blank

VARIABLES
  screen,   (* the character at each line and column *)
  x, y      (* the cursor                            *)

tvars == <<screen, x, y>>

Rows    == 0 .. Lines - 1
Columns == 0 .. Cols - 1

Init ==
  /\ screen \in [Rows \X Columns -> Chars \cup {Blank}]
  /\ x \in Columns /\ y \in Rows

(* The cursor goes to column cx of line cy, of a screen s that scrolls when *)
(* cy is past its last line.                                               *)
MoveTo(s, cx, cy) ==
  /\ x' = cx
  /\ IF cy \in Rows
     THEN /\ y' = cy
          /\ screen' = s
     ELSE /\ y' = Lines - 1
          /\ screen' = [rc \in Rows \X Columns |->
                          IF rc[1] = Lines - 1 THEN Blank ELSE s[<<rc[1] + 1, rc[2]>>]]

Put(c) ==
  LET s == [screen EXCEPT ![<<y, x>>] = c]
  IN  IF x = Cols - 1 THEN MoveTo(s, 0, y + 1) ELSE MoveTo(s, x + 1, y)

NewLine == MoveTo(screen, 0, y + 1)

CarriageReturn == MoveTo(screen, 0, y)

Next == (\E c \in Chars : Put(c)) \/ NewLine \/ CarriageReturn

Spec == Init /\ [][Next]_tvars

=============================================================================
