------------------------------ MODULE LineInput ------------------------------
(***************************************************************************)
(* What the reader expects of the keyboard: characters are typed, a line   *)
(* is handed over when it is ended, and its characters come once each, in  *)
(* the order they were typed, up to the end of the line. Of a broken line  *)
(* nothing is promised until the next one is begun.                        *)
(***************************************************************************)
EXTENDS Sequences

CONSTANTS
  Chars,   (* what can be typed           *)
  NL       (* the character ending a line *)

VARIABLES
  typed,   (* the characters that were typed and not handed over *)
  ready,   (* the line is ended, and its characters are due      *)
  out,     (* the character handed over last                     *)
  broken   (* nothing is promised of this line                   *)

lvars == <<typed, ready, out, broken>>

Init == typed = << >> /\ ready = FALSE /\ broken = FALSE

Type(c) ==
  /\ ~ ready /\ typed' = Append(typed, c)
  /\ UNCHANGED <<ready, out, broken>>

HandOver(line) ==
  /\ out' = Head(line) /\ typed' = Tail(line) /\ ready' = (Tail(line) # << >>)
  /\ UNCHANGED broken

EndLine == ~ ready /\ HandOver(Append(typed, NL))

Deliver == ready /\ HandOver(typed)

Break == broken' = TRUE

BeginLine ==
  /\ broken /\ typed' = << >> /\ ready' = FALSE /\ broken' = FALSE
  /\ UNCHANGED out

Next ==
  \/ ~ broken /\ ((\E c \in Chars \ {NL} : Type(c)) \/ EndLine \/ Deliver)
  \/ Break
  \/ BeginLine

Spec == Init /\ [][Next]_lvars

=============================================================================
